---- MODULE Spec2Model ----
(***************************************************************************)
(* SpotDailyReview: the boundary-data reconciliation                        *)
(* (src/preprocess_data.py, src/app.py) and the trading-data filter         *)
(* (src/review.py), as state machines.                                      *)
(*                                                                          *)
(* Spreadsheet cells are sequences of one-character strings, so that the    *)
(* conversions of the code (to_datetime, to_numeric, astype(str), the       *)
(* %H:%M parse, the capacity regex) are computed from the characters.       *)
(* A table is a record [columns, rows]: columns is the ordered list of      *)
(* column names, rows a sequence of functions from the column names.        *)
(* TLA+ strings are ASCII, so the Chinese column and file names of the      *)
(* source are written in English; each is given beside its definition.      *)
(***************************************************************************)
EXTENDS Integers, Sequences, FiniteSets, TLC

VARIABLES
    files,       \* the supplied file set: file name -> raw sheet (files_dict / margin_data)
    app_out,     \* what preprocess_boundary_files returned, None before the call
    script_out,  \* how preprocess_data ended, None before the call
    edits,       \* how many rows the environment has put into the sheets
    df,          \* PowerDataAnalyzer.df, the loaded trading table
    args,        \* the arguments of the last filter_by_price_range call
    filtered,    \* what that call returned, None before the call
    metric,      \* the last calculate_* or analyze_* call and what it returned
    boundary_result  \* st.session_state['boundary_result'], None while not set

vars == <<files, app_out, script_out, edits, df, args, filtered, metric, boundary_result>>

----------------------------------------------------------------------------
(* Python and pandas values *)

\* Python's None, for a value that is otherwise wrapped as <<value>>.
None == <<>>

Some(v) == <<v>>

\* pandas' missing value of a numeric column (NaN, or None in an object column).
NaN == -1

\* pandas' missing value of a date or time column.
NaT == -1

IsNull(v) == v = NaN

\* The characters that occur in cells, in code-point order.
Ord(c) ==
    CASE c = " " -> 32 [] c = "-" -> 45 [] c = "." -> 46
      [] c = "0" -> 48 [] c = "1" -> 49 [] c = "2" -> 50 [] c = "3" -> 51
      [] c = "4" -> 52 [] c = "5" -> 53 [] c = "6" -> 54 [] c = "7" -> 55
      [] c = "8" -> 56 [] c = "9" -> 57 [] c = ":" -> 58
      [] c = "M" -> 77 [] c = "W" -> 87
      [] c = "a" -> 97 [] c = "n" -> 110 [] c = "x" -> 120
      [] OTHER -> 200

IsDigit(c) == c \in {"0", "1", "2", "3", "4", "5", "6", "7", "8", "9"}

DigitVal(c) == Ord(c) - 48

AllDigits(s) == Len(s) > 0 /\ \A i \in 1..Len(s) : IsDigit(s[i])

RECURSIVE NumVal(_)
NumVal(s) ==
    IF Len(s) = 0 THEN 0
    ELSE 10 * NumVal(SubSeq(s, 1, Len(s) - 1)) + DigitVal(s[Len(s)])

\* Python's str order on two cells.
RECURSIVE StrLess(_, _)
StrLess(s, t) ==
    IF Len(t) = 0 THEN FALSE
    ELSE IF Len(s) = 0 THEN TRUE
    ELSE IF s[1] # t[1] THEN Ord(s[1]) < Ord(t[1])
    ELSE StrLess(Tail(s), Tail(t))

\* pd.to_numeric(cell, errors='coerce'): the number, NaN for anything else.
to_numeric(cell) == IF AllDigits(cell) THEN NumVal(cell) ELSE NaN

\* Series.astype(str) on one cell: a missing cell becomes the text "nan".
astype_str(cell) == IF cell = <<>> THEN <<"n", "a", "n">> ELSE cell

DaysInMonth(y, m) ==
    IF m \in {4, 6, 9, 11} THEN 30
    ELSE IF m = 2 THEN (IF y % 4 = 0 /\ (y % 100 # 0 \/ y % 400 = 0) THEN 29 ELSE 28)
    ELSE 31

IsIsoDate(cell) ==
    /\ Len(cell) = 10
    /\ cell[5] = "-" /\ cell[8] = "-"
    /\ \A i \in {1, 2, 3, 4, 6, 7, 9, 10} : IsDigit(cell[i])
    /\ NumVal(SubSeq(cell, 6, 7)) \in 1..12
    /\ NumVal(SubSeq(cell, 9, 10)) \in
           1..DaysInMonth(NumVal(SubSeq(cell, 1, 4)), NumVal(SubSeq(cell, 6, 7)))

\* pd.to_datetime(column) is called without errors='coerce': a missing cell is
\* NaT, a calendar date parses, anything else raises for the whole column.
to_datetime_raises(cell) == cell # <<>> /\ ~IsIsoDate(cell)

\* pd.to_datetime(cell).date() of a cell that does not raise, as yyyymmdd.
to_date(cell) ==
    IF cell = <<>> THEN NaT
    ELSE 10000 * NumVal(SubSeq(cell, 1, 4)) + 100 * NumVal(SubSeq(cell, 6, 7))
         + NumVal(SubSeq(cell, 9, 10))

\* The place of the first ":" of s, 0 when it has none.
RECURSIVE ColonAt(_, _)
ColonAt(s, i) ==
    IF i > Len(s) THEN 0 ELSE IF s[i] = ":" THEN i ELSE ColonAt(s, i + 1)

\* pd.to_datetime(label, format='%H:%M', errors='coerce'): minutes after
\* midnight; NaT unless the label is one or two digits of an hour 0..23, ":",
\* one or two digits of a minute 0..59.
to_time(label) ==
    LET c == ColonAt(label, 1)
        h == SubSeq(label, 1, c - 1)
        m == SubSeq(label, c + 1, Len(label))
    IN  IF /\ c > 0
           /\ AllDigits(h) /\ Len(h) <= 2 /\ NumVal(h) <= 23
           /\ AllDigits(m) /\ Len(m) <= 2 /\ NumVal(m) <= 59
        THEN 60 * NumVal(h) + NumVal(m)
        ELSE NaT

----------------------------------------------------------------------------
(* ScalarExtractor: extract_online_capacity *)

\* The literal 运行机组容量 of the pattern, one token of a cell's text.
CapLabel == "RunCap"

\* The end (exclusive) of the run of digits of text that starts at i.
RECURSIVE DigitRunEnd(_, _)
DigitRunEnd(text, i) ==
    IF i <= Len(text) /\ IsDigit(text[i]) THEN DigitRunEnd(text, i + 1) ELSE i

\* The end (exclusive) of the run of whitespace of text that starts at i.
RECURSIVE SpaceRunEnd(_, _)
SpaceRunEnd(text, i) ==
    IF i <= Len(text) /\ text[i] = " " THEN SpaceRunEnd(text, i + 1) ELSE i

\* re.match of  运行机组容量(\d+\.?\d*)\s*MW  at place i of text: <<first, last>>
\* of group 1, or <<>> when the pattern does not match there. \d+ takes the
\* whole run of digits; a "." after it is taken with the digits behind it, and
\* giving it back cannot help, since \s*MW does not match at a ".".
CapMatchAt(text, i) ==
    IF i > Len(text) \/ text[i] # CapLabel THEN <<>>
    ELSE LET d1 == DigitRunEnd(text, i + 1)
             d2 == IF d1 <= Len(text) /\ text[d1] = "."
                   THEN DigitRunEnd(text, d1 + 1) ELSE d1
             s  == SpaceRunEnd(text, d2)
         IN  IF d1 > i + 1 /\ s + 1 <= Len(text) /\ text[s] = "M" /\ text[s + 1] = "W"
             THEN <<i + 1, d2 - 1>>
             ELSE <<>>

\* A search that returns the match at the rightmost place that has one.
RECURSIVE CapSearchRightmost(_, _)
CapSearchRightmost(text, i) ==
    IF i > Len(text) THEN <<>>
    ELSE IF CapSearchRightmost(text, i + 1) # <<>> THEN CapSearchRightmost(text, i + 1)
    ELSE CapMatchAt(text, i)

\* re.search: the match at the leftmost place that has one.
RECURSIVE CapSearch(_, _)
CapSearch(text, i) ==
    IF i > Len(text) THEN <<>>
    ELSE IF CapMatchAt(text, i) # <<>> THEN CapMatchAt(text, i)
    ELSE CapSearch(text, i + 1)

\* float(digits[.digits]) in hundredths of a MW (exact up to two decimals,
\* which is all the cells of the model carry).
float_of(g) ==
    LET dot  == DigitRunEnd(g, 1)
        frac == SubSeq(g, dot + 1, Len(g))
        two  == SubSeq(frac \o <<"0", "0">>, 1, 2)
    IN  100 * NumVal(SubSeq(g, 1, dot - 1)) + NumVal(two)

\* extract_online_capacity(text): None (NaN here) for a missing cell or a cell
\* without a match, else the number of the first match.
extract_online_capacity(text) ==
    IF text = <<>> THEN NaN
    ELSE LET m == CapSearch(text, 1)
         IN  IF m # <<>> THEN float_of(SubSeq(text, m[1], m[2])) ELSE NaN

----------------------------------------------------------------------------
(* SourceTableNormalizer: the nine sources *)

\* The nine required files, in the order the code reads them:
\*   load_forecast     日前统调系统负荷预测_REPORT0.xlsx
\*   renewable         日前新能源负荷预测_REPORT0.xlsx
\*   disclosure        披露信息96点数据_REPORT0.xlsx
\*   tie_line          日前联络线计划_REPORT0.xlsx
\*   clearing          日前市场出清情况_TABLE.xlsx
\*   hydro             日前水电计划发电总出力预测_REPORT0.xlsx
\*   actual            96点电网运行实际值_REPORT0.xlsx
\*   tie_line_rt       实时联络线计划_REPORT0.xlsx
\*   price             现货出清电价_REPORT0.xlsx
FileOrder ==
    <<"load_forecast", "renewable", "disclosure", "tie_line", "clearing",
      "hydro", "actual", "tie_line_rt", "price">>

FileNames == {FileOrder[i] : i \in 1..Len(FileOrder)}

\* The aggregate label 总加 of the tie-line sheets.
Total == <<"Total">>

\* df.iloc[1:]: the sheet without its first row.
iloc_from_1(sheet) == IF sheet = <<>> THEN <<>> ELSE Tail(sheet)

Map(f(_), s) == [i \in 1..Len(s) |-> f(s[i])]

\* A sheet read by position: the date is column dcol, the time-slot column
\* tcol (0-based, as in iloc), and each <<name, col>> of qcols a quantity.
\* Only the columns the merges select are kept.
Positional(rows, dcol, tcol, qcols) ==
    LET names == {qcols[k][1] : k \in 1..Len(qcols)}
        pos(n) == (CHOOSE k \in 1..Len(qcols) : qcols[k][1] = n)
        row(r) == [c \in {"date", "time_slot"} \cup names |->
                     IF c = "date" THEN to_date(r[dcol + 1])
                     ELSE IF c = "time_slot" THEN astype_str(r[tcol + 1])
                     ELSE to_numeric(r[qcols[pos(c)][2] + 1])]
    IN  [columns |-> <<"date", "time_slot">> \o Map(LAMBDA q : q[1], qcols),
         rows    |-> Map(row, rows)]

PositionalRaises(rows, dcol) ==
    \E i \in 1..Len(rows) : to_datetime_raises(rows[i][dcol + 1])

\* 1. load forecast: 省调负荷(MW) from column 3.
df_load(sheet) == Positional(iloc_from_1(sheet), 1, 2, <<<<"grid_load", 3>>>>)

\* 2. renewable forecast: 风电 from column 4, 光伏 from 5, 新能源负荷 from 3.
df_renewable(sheet) ==
    Positional(iloc_from_1(sheet), 1, 2,
               <<<<"wind", 4>>, <<"solar", 5>>, <<"renewable_load", 3>>>>)

\* 3. disclosure: 非市场化出力(MW) from column 3.
df_disclosure(sheet) ==
    Positional(iloc_from_1(sheet), 1, 2, <<<<"non_market_output", 3>>>>)

\* The 总加 rows of a tie-line sheet.
TotalRows(sheet) == SelectSeq(iloc_from_1(sheet), LAMBDA r : r[2] = Total)

\* 4. day-ahead tie-line plan: 联络线计划(MW) from column 4 of the 总加 rows.
df_tie_line(sheet) == Positional(TotalRows(sheet), 2, 3, <<<<"tie_line_plan", 4>>>>)

\* 6. hydro forecast: 水电出力(MW) from column 3.
df_hydro(sheet) == Positional(iloc_from_1(sheet), 1, 2, <<<<"hydro_output", 3>>>>)

\* 7. actual telemetry: six quantities of one row.
df_actual(sheet) ==
    Positional(iloc_from_1(sheet), 1, 2,
               <<<<"grid_load", 3>>, <<"wind", 5>>, <<"solar", 6>>,
                 <<"renewable_load", 7>>, <<"hydro_output", 8>>,
                 <<"non_market_output", 11>>>>)

\* 8. realtime tie-line plan.
df_tie_line_rt(sheet) == Positional(TotalRows(sheet), 2, 3, <<<<"tie_line_plan", 4>>>>)

\* 9. clearing price, read by column name; the rows whose 序号 is not a number
\* (the daily averages) are dropped first.
IntervalRows(sheet) == SelectSeq(sheet, LAMBDA r : ~IsNull(to_numeric(r.seq)))

df_price(sheet) ==
    [columns |-> <<"date", "time_slot", "realtime_clearing_price",
                   "forecast_clearing_price">>,
     rows    |-> Map(LAMBDA r : [date |-> to_date(r.date),
                                 time_slot |-> astype_str(r.time_slot),
                                 realtime_clearing_price |-> to_numeric(r.rt_price),
                                 forecast_clearing_price |-> to_numeric(r.da_price)],
                     IntervalRows(sheet))]

\* 5. clearing summary: the capacity is read from row 0, column 2 of the sheet
\* without its first row.
ClearingCell(sheet) == iloc_from_1(sheet)[1][3]

\* The exception reading file f raises, None when it raises none.
ReadRaises(f, sheet) ==
    CASE f \in {"load_forecast", "renewable", "disclosure", "hydro", "actual"} ->
           IF PositionalRaises(iloc_from_1(sheet), 1) THEN Some("DateParseError") ELSE None
      [] f \in {"tie_line", "tie_line_rt"} ->
           IF PositionalRaises(TotalRows(sheet), 2) THEN Some("DateParseError") ELSE None
      [] f = "clearing" ->
           IF iloc_from_1(sheet) = <<>> THEN Some("IndexError") ELSE None
      [] f = "price" ->
           IF \E i \in 1..Len(IntervalRows(sheet)) :
                  to_datetime_raises(IntervalRows(sheet)[i].date)
           THEN Some("DateParseError") ELSE None

----------------------------------------------------------------------------
(* pandas operations on tables *)

Range(s) == {s[i] : i \in 1..Len(s)}

RECURSIVE Flatten(_)
Flatten(ss) == IF ss = <<>> THEN <<>> ELSE Head(ss) \o Flatten(Tail(ss))

KeyCols == {"date", "time_slot"}

\* The join key of a row: on=['日期', '时点'].
KeyOf(r) == <<r.date, r.time_slot>>

\* NullRow as a fillna(0) would leave it.
NullRowZero(cols) == [c \in cols |-> 0]

NullRow(cols) == [c \in cols |-> NaN]

Restrict(r, cols) == [c \in cols |-> r[c]]

RowsWithKey(t, k) == SelectSeq(t.rows, LAMBDA r : KeyOf(r) = k)

\* NaLastLess with na_position='first'.
NaFirstLess(x, y) == x < y

\* The order of two values of a sort column, missing values last.
NaLastLess(x, y) == IF IsNull(x) THEN FALSE ELSE IF IsNull(y) THEN TRUE ELSE x < y

\* The lexicographic order of join keys: by date, then by the label's text.
KeyLess(a, b) == NaLastLess(a[1], b[1]) \/ (a[1] = b[1] /\ StrLess(a[2], b[2]))

RECURSIVE SortKeys(_)
SortKeys(S) ==
    IF S = {} THEN <<>>
    ELSE LET m == CHOOSE k \in S : \A o \in S \ {k} : KeyLess(k, o)
         IN  <<m>> \o SortKeys(S \ {m})

\* OuterRows as how='left' would build it: the keys of the left table only.
OuterRowsLeftKeys(left, right) ==
    LET rv == Range(right.columns) \ KeyCols
        keys == SortKeys({KeyOf(left.rows[i]) : i \in 1..Len(left.rows)})
        forKey(k) ==
            LET ls == RowsWithKey(left, k)
                rs == RowsWithKey(right, k)
            IN  IF rs = <<>> THEN Map(LAMBDA l : l @@ NullRow(rv), ls)
                ELSE Flatten(Map(LAMBDA l : Map(LAMBDA r : l @@ Restrict(r, rv), rs), ls))
    IN  Flatten(Map(forKey, keys))

\* how='outer': the union of the keys, sorted; under one key every left row
\* pairs with every right row, and a row without a counterpart keeps its own
\* columns with the other side's missing.
OuterRows(left, right) ==
    LET lv == Range(left.columns) \ KeyCols
        rv == Range(right.columns) \ KeyCols
        keys == SortKeys({KeyOf(left.rows[i]) : i \in 1..Len(left.rows)}
                         \cup {KeyOf(right.rows[i]) : i \in 1..Len(right.rows)})
        forKey(k) ==
            LET ls == RowsWithKey(left, k)
                rs == RowsWithKey(right, k)
            IN  IF ls = <<>> THEN Map(LAMBDA r : r @@ NullRow(lv), rs)
                ELSE IF rs = <<>> THEN Map(LAMBDA l : l @@ NullRow(rv), ls)
                ELSE Flatten(Map(LAMBDA l : Map(LAMBDA r : l @@ Restrict(r, rv), rs), ls))
    IN  Flatten(Map(forKey, keys))

\* how='left': the left rows in their order, each once per right row of its
\* key, or once with the right columns missing when the key has none.
LeftRows(left, right) ==
    LET rv == Range(right.columns) \ KeyCols
        forRow(l) ==
            LET rs == RowsWithKey(right, KeyOf(l))
            IN  IF rs = <<>> THEN <<l @@ NullRow(rv)>>
                ELSE Map(LAMBDA r : l @@ Restrict(r, rv), rs)
    IN  Flatten(Map(forRow, left.rows))

\* pd.merge(left, right, on=['日期', '时点'], how=how).
merge(left, right, how) ==
    [columns |-> left.columns \o SelectSeq(right.columns, LAMBDA c : c \notin KeyCols),
     rows    |-> IF how = "outer" THEN OuterRows(left, right) ELSE LeftRows(left, right)]

\* df[cols]: the named columns, in that order.
select(t, cols) ==
    [columns |-> cols, rows |-> Map(LAMBDA r : Restrict(r, Range(cols)), t.rows)]

\* df[c] = f(row): a column assigned (appended when new).
assign(t, c, f(_)) ==
    [columns |-> IF c \in Range(t.columns) THEN t.columns ELSE Append(t.columns, c),
     rows    |-> Map(LAMBDA r : [x \in DOMAIN r \cup {c} |-> IF x = c THEN f(r) ELSE r[x]],
                     t.rows)]

\* pd.concat([a, b], ignore_index=True): the columns of a, then the new ones of
\* b; a row has the columns of the other table missing.
concat(a, b) ==
    LET cols == a.columns \o SelectSeq(b.columns, LAMBDA c : c \notin Range(a.columns))
        widen(r) == [c \in Range(cols) |-> IF c \in DOMAIN r THEN r[c] ELSE NaN]
    IN  [columns |-> cols, rows |-> Map(widen, a.rows) \o Map(widen, b.rows)]

\* df.drop(columns=cols).
drop(t, cols) == select(t, SelectSeq(t.columns, LAMBDA c : c \notin cols))

\* Whether row a sorts strictly before row b by the columns by, in that order.
RowLess(a, b, by) ==
    \E k \in 1..Len(by) :
        /\ \A j \in 1..(k - 1) : a[by[j]] = b[by[j]]
        /\ NaLastLess(a[by[k]], b[by[k]])

\* r put behind every row of the sorted s that does not sort after it.
RECURSIVE InsertRow(_, _, _)
InsertRow(s, r, by) ==
    IF s = <<>> THEN <<r>>
    ELSE IF RowLess(r, s[Len(s)], by)
         THEN Append(InsertRow(SubSeq(s, 1, Len(s) - 1), r, by), s[Len(s)])
         ELSE Append(s, r)

RECURSIVE SortRows(_, _)
SortRows(rows, by) ==
    IF rows = <<>> THEN <<>>
    ELSE InsertRow(SortRows(SubSeq(rows, 1, Len(rows) - 1), by), rows[Len(rows)], by)

\* df.sort_values(by).reset_index(drop=True): on several columns pandas sorts
\* with a stable lexsort, missing values last.
sort_values(t, by) == [columns |-> t.columns, rows |-> SortRows(t.rows, by)]

----------------------------------------------------------------------------
(* BoundaryReconciler *)

\* The fixed columns of the unified table:
\*   日期, 时点, 边界数据类型, 竞价空间(MW), 省调负荷(MW), 风电(MW), 光伏(MW),
\*   新能源负荷(MW), 非市场化出力(MW), 水电出力(MW), 联络线计划(MW),
\*   在线机组容量(MW), 日前出清价格(元/MWh), 实时出清价格(元/MWh), 负荷率(%)
columns ==
    <<"date", "time_slot", "epoch", "bidding_space", "grid_load", "wind",
      "solar", "renewable_load", "non_market_output", "hydro_output",
      "tie_line_plan", "online_capacity", "forecast_clearing_price",
      "realtime_clearing_price", "load_rate">>

\* The epochs 日前 and 实时.
DayAhead == "day_ahead"

RealTime == "realtime"

\* .map({'日前': 0, '实时': 1}).
epoch_rank(e) == IF e = DayAhead THEN 0 ELSE IF e = RealTime THEN 1 ELSE NaN

\* for col in columns: if col not in result_df.columns: result_df[col] = None
RECURSIVE ensure_columns(_, _)
ensure_columns(t, cols) ==
    IF cols = <<>> THEN t
    ELSE ensure_columns(IF Head(cols) \in Range(t.columns) THEN t
                        ELSE assign(t, Head(cols), LAMBDA r : NaN),
                        Tail(cols))

\* sort_unified without the final drop of the helper columns.
sort_unified_keeps_helpers(t) ==
    LET t1 == assign(t, "time_slot_sort", LAMBDA r : to_time(r.time_slot))
        t2 == assign(t1, "epoch_sort", LAMBDA r : epoch_rank(r.epoch))
    IN  sort_values(t2, <<"epoch_sort", "date", "time_slot_sort">>)

\* The helper columns 时点_排序 and 边界数据类型_排序 are added, the table is
\* sorted by (epoch, date, time of day) and the helper columns are dropped.
sort_unified(t) ==
    LET t1 == assign(t, "time_slot_sort", LAMBDA r : to_time(r.time_slot))
        t2 == assign(t1, "epoch_sort", LAMBDA r : epoch_rank(r.epoch))
        t3 == sort_values(t2, <<"epoch_sort", "date", "time_slot_sort">>)
    IN  drop(t3, {"time_slot_sort", "epoch_sort"})

\* app.py: the forecast epoch, five outer merges on (date, time_slot), then
\* the epoch and the capacity scalar on every row.
day_ahead_data(fs) ==
    LET m1 == merge(df_load(fs["load_forecast"]), df_renewable(fs["renewable"]), "outer")
        m2 == merge(m1, df_disclosure(fs["disclosure"]), "outer")
        m3 == merge(m2, df_tie_line(fs["tie_line"]), "outer")
        m4 == merge(m3, df_hydro(fs["hydro"]), "outer")
        m5 == merge(m4, select(df_price(fs["price"]),
                               <<"date", "time_slot", "forecast_clearing_price">>),
                    "outer")
        m6 == assign(m5, "epoch", LAMBDA r : DayAhead)
    IN  assign(m6, "online_capacity",
               LAMBDA r : extract_online_capacity(ClearingCell(fs["clearing"])))

\* real_time_data with the capacity scalar attached to the realtime rows too.
real_time_data_with_capacity(fs) ==
    LET m1 == merge(df_actual(fs["actual"]), df_tie_line_rt(fs["tie_line_rt"]), "left")
        m2 == merge(m1, select(df_price(fs["price"]),
                               <<"date", "time_slot", "realtime_clearing_price">>),
                    "left")
        m3 == assign(m2, "epoch", LAMBDA r : RealTime)
    IN  assign(m3, "online_capacity",
               LAMBDA r : extract_online_capacity(ClearingCell(fs["clearing"])))

\* app.py: the realtime epoch, the actual telemetry left-merged with the
\* realtime tie-line plan and the realtime clearing price.
real_time_data(fs) ==
    LET m1 == merge(df_actual(fs["actual"]), df_tie_line_rt(fs["tie_line_rt"]), "left")
        m2 == merge(m1, select(df_price(fs["price"]),
                               <<"date", "time_slot", "realtime_clearing_price">>),
                    "left")
    IN  assign(m2, "epoch", LAMBDA r : RealTime)

\* app.py: the unified table of a file set that reads without an exception.
result_df(fs) ==
    LET all == concat(day_ahead_data(fs), real_time_data(fs))
    IN  sort_unified(select(ensure_columns(all, columns), columns))

\* The first file, in reading order from place i, that is absent or whose
\* reading raises; 0 when every file reads.
RECURSIVE FirstStop(_, _)
FirstStop(fs, i) ==
    IF i > Len(FileOrder) THEN 0
    ELSE IF FileOrder[i] \notin DOMAIN fs THEN i
    ELSE IF ReadRaises(FileOrder[i], fs[FileOrder[i]]) # None THEN i
    ELSE FirstStop(fs, i + 1)

\* The function with an except clause that returns no message.
preprocess_boundary_files_without_message(fs) ==
    LET i == FirstStop(fs, 1)
    IN  IF i = 0
        THEN [result_df |-> Some(result_df(fs)), error |-> None, read |-> FileOrder]
        ELSE IF FileOrder[i] \notin DOMAIN fs
        THEN [result_df |-> None,
              error     |-> Some(<<"missing_file", FileOrder[i]>>),
              read      |-> SubSeq(FileOrder, 1, i - 1)]
        ELSE [result_df |-> None, error |-> None, read |-> SubSeq(FileOrder, 1, i)]

\* preprocess_boundary_files(files_dict): (result_df, None), or
\* (None, "缺少文件: <name>") at the first absent file, or
\* (None, "处理出错: <exception>") when anything raises; read lists the files
\* pd.read_excel was called on.
preprocess_boundary_files(fs) ==
    LET i == FirstStop(fs, 1)
    IN  IF i = 0
        THEN [result_df |-> Some(result_df(fs)), error |-> None, read |-> FileOrder]
        ELSE IF FileOrder[i] \notin DOMAIN fs
        THEN [result_df |-> None,
              error     |-> Some(<<"missing_file", FileOrder[i]>>),
              read      |-> SubSeq(FileOrder, 1, i - 1)]
        ELSE [result_df |-> None,
              error     |-> Some(<<"processing_error",
                                   ReadRaises(FileOrder[i], fs[FileOrder[i]])[1]>>),
              read      |-> SubSeq(FileOrder, 1, i)]

\* preprocess_data.py: the same two epochs, built by the script's own copy of
\* the merges.
pd_day_ahead_data(fs) ==
    LET m1 == merge(df_load(fs["load_forecast"]), df_renewable(fs["renewable"]), "outer")
        m2 == merge(m1, df_disclosure(fs["disclosure"]), "outer")
        m3 == merge(m2, df_tie_line(fs["tie_line"]), "outer")
        m4 == merge(m3, df_hydro(fs["hydro"]), "outer")
        m5 == merge(m4, select(df_price(fs["price"]),
                               <<"date", "time_slot", "forecast_clearing_price">>),
                    "outer")
        m6 == assign(m5, "epoch", LAMBDA r : DayAhead)
    IN  assign(m6, "online_capacity",
               LAMBDA r : extract_online_capacity(ClearingCell(fs["clearing"])))

pd_real_time_data(fs) ==
    LET m1 == merge(df_actual(fs["actual"]), df_tie_line_rt(fs["tie_line_rt"]), "left")
        m2 == merge(m1, select(df_price(fs["price"]),
                               <<"date", "time_slot", "realtime_clearing_price">>),
                    "left")
    IN  assign(m2, "epoch", LAMBDA r : RealTime)

\* The script's table left in the order of the concatenation.
pd_result_df_in_concat_order(fs) ==
    LET all == concat(pd_day_ahead_data(fs), pd_real_time_data(fs))
    IN  select(ensure_columns(all, columns), columns)

\* preprocess_data.py lines 152-187: the two epochs stacked, the fixed columns,
\* the sort.
pd_result_df(fs) ==
    LET all == concat(pd_day_ahead_data(fs), pd_real_time_data(fs))
    IN  sort_unified(select(ensure_columns(all, columns), columns))

\* preprocess_data(): the table, or the exception that ends the script: the
\* FileNotFoundError of pd.read_excel on the first absent file, or what the
\* reading of a file raises.
preprocess_data(fs) ==
    LET i == FirstStop(fs, 1)
    IN  IF i = 0
        THEN [result_df |-> Some(pd_result_df(fs)), raised |-> None]
        ELSE IF FileOrder[i] \notin DOMAIN fs
        THEN [result_df |-> None, raised |-> Some(<<"FileNotFoundError", FileOrder[i]>>)]
        ELSE [result_df |-> None,
              raised    |-> Some(<<ReadRaises(FileOrder[i], fs[FileOrder[i]])[1],
                                   FileOrder[i]>>)]

----------------------------------------------------------------------------
(* The supplied sheets *)

\* How many rows the environment puts into the sheets before a run.
MaxEdits == 3

\* How many faults (a file taken away, a row with a defect) a file set has.
MaxFaults == 3

D1 == <<"2", "0", "2", "6", "-", "0", "1", "-", "1", "0">>

D2 == <<"2", "0", "2", "6", "-", "0", "1", "-", "1", "1">>

T0900 == <<"9", ":", "0", "0">>

T1000 == <<"1", "0", ":", "0", "0">>

T2400 == <<"2", "4", ":", "0", "0">>

\* A cell that is neither a date nor a number.
Junk == <<"x">>

\* The (date, time-slot) cells of a well-formed row. As text "10:00" sorts
\* before "9:00", and "24:00" is no %H:%M time.
CleanKeys == {<<D1, T0900>>, <<D1, T1000>>, <<D1, T2400>>, <<D2, T0900>>}

DigitChars == <<"0", "1", "2", "3", "4", "5", "6", "7", "8", "9">>

\* The number k < 100 as a cell.
NumCell(k) ==
    IF k < 10 THEN <<DigitChars[k + 1]>>
    ELSE <<DigitChars[(k \div 10) + 1], DigitChars[(k % 10) + 1]>>

\* The width of each sheet that is read by position, as the code indexes it.
Width(f) ==
    CASE f \in {"load_forecast", "disclosure", "hydro"} -> 4
      [] f = "renewable" -> 6
      [] f \in {"tie_line", "tie_line_rt"} -> 5
      [] f = "actual" -> 12
      [] f = "clearing" -> 3

IsTieFile(f) == f \in {"tie_line", "tie_line_rt"}

DateCol(f) == IF IsTieFile(f) THEN 2 ELSE 1

\* A row of sheet f: the date and the time-slot where f has them, the label
\* where a tie-line sheet has it, and in every other column k the cell q(k).
SheetRow(f, label, d, t, q(_)) ==
    IF f = "price"
    THEN [seq |-> label, date |-> d, time_slot |-> t, rt_price |-> q(3), da_price |-> q(4)]
    ELSE [i \in 1..Width(f) |->
            IF i = DateCol(f) + 1 THEN d
            ELSE IF i = DateCol(f) + 2 THEN t
            ELSE IF IsTieFile(f) /\ i = 2 THEN label
            ELSE q(i - 1)]

\* The units row under the header, which iloc[1:] drops: no cell of it parses.
UnitsRow(f) == SheetRow(f, Junk, Junk, Junk, LAMBDA k : Junk)

\* The text of the clearing summary, 运行机组容量42.5MW among other words.
CapText == <<"x", CapLabel, "4", "2", ".", "5", "M", "W", "x">>

ClearingRow(text) == <<Junk, Junk, text>>

RowFiles == FileNames \ {"clearing"}

\* The sheets before the environment adds rows: every file present, nothing
\* in it but the units row, the clearing summary with its one text row.
EmptySheets ==
    [f \in FileNames |->
        IF f = "clearing" THEN <<UnitsRow(f), ClearingRow(CapText)>>
        ELSE IF f = "price" THEN <<>>
        ELSE <<UnitsRow(f)>>]

\* The intervals sheet f can hold. The disclosure and the hydro sheet are read
\* and merged exactly as the load forecast is; they hold one interval, which
\* keeps the number of file sets within what can be enumerated.
KeysOf(f) == IF f \in {"disclosure", "hydro"} THEN {<<D1, T1000>>} ELSE CleanKeys

\* The well-formed interval rows of sheet f, one per key, each quantity cell
\* holding its own column number.
CleanRows(f) ==
    {SheetRow(f, IF f = "price" THEN NumCell(1) ELSE Total, k[1], k[2], NumCell) :
        k \in KeysOf(f)}

\* The rows a sheet holds beside its interval rows: the detail row of one
\* interconnector in a tie-line sheet, the daily-average row in the price sheet.
OtherRows(f) ==
    IF IsTieFile(f) THEN {SheetRow(f, Junk, Junk, T0900, NumCell)}
    ELSE IF f = "price" THEN {SheetRow(f, Junk, Junk, <<>>, NumCell)}
    ELSE {}

\* The rows with a defect: a date that does not parse, a missing date, a
\* quantity that is no number.
FaultyRows(f) ==
    {SheetRow(f, IF f = "price" THEN NumCell(1) ELSE Total, Junk, T0900, NumCell),
     SheetRow(f, IF f = "price" THEN NumCell(1) ELSE Total, <<>>, T0900, NumCell),
     SheetRow(f, IF f = "price" THEN NumCell(1) ELSE Total, D1, T0900, LAMBDA k : Junk)}

----------------------------------------------------------------------------
(* The state machine of the reconciliation *)

NoFilterCall == df = <<>> /\ args = None /\ filtered = None /\ metric = None

InitBoundary ==
    /\ files = EmptySheets
    /\ app_out = None
    /\ script_out = None
    /\ edits = 0
    /\ boundary_result = None
    /\ NoFilterCall

\* One more row in a sheet that is there, before any run.
AppendRow(f, row, budget) ==
    /\ app_out = None /\ script_out = None
    /\ edits < budget
    /\ f \in DOMAIN files
    /\ files' = [files EXCEPT ![f] = Append(@, row)]
    /\ edits' = edits + 1
    /\ UNCHANGED <<app_out, script_out, df, args, filtered, metric, boundary_result>>

PutRow == \E f \in RowFiles : \E row \in CleanRows(f) : AppendRow(f, row, MaxEdits)

\* The clearing summary's text replaced by one without the capacity.
BlankClearing ==
    /\ app_out = None /\ script_out = None
    /\ edits < MaxEdits
    /\ "clearing" \in DOMAIN files
    /\ files["clearing"] = EmptySheets["clearing"]
    /\ files' = [files EXCEPT !["clearing"] = <<UnitsRow("clearing"), ClearingRow(Junk)>>]
    /\ edits' = edits + 1
    /\ UNCHANGED <<app_out, script_out, df, args, filtered, metric, boundary_result>>

\* One batch is reconciled once, by the upload page or by the script.
\* A call of preprocess_boundary_files on the file set.
RunApp ==
    /\ app_out = None /\ script_out = None
    /\ app_out' = Some(preprocess_boundary_files(files))
    /\ UNCHANGED <<files, script_out, edits, df, args, filtered, metric, boundary_result>>

\* The batch script: preprocess_data on the same files in margin_data.
RunScript ==
    /\ app_out = None /\ script_out = None
    /\ script_out' = Some(preprocess_data(files))
    /\ UNCHANGED <<files, app_out, edits, df, args, filtered, metric, boundary_result>>

Next == PutRow \/ BlankClearing \/ RunApp \/ RunScript

Spec == InitBoundary /\ [][Next]_vars

(* The same machine with faulty inputs: files taken away, rows with a defect. *)

\* Every sheet with one well-formed row of the same interval.
OneRowSheets ==
    [f \in FileNames |->
        IF f = "clearing" THEN EmptySheets[f]
        ELSE Append(EmptySheets[f],
                    SheetRow(f, IF f = "price" THEN NumCell(1) ELSE Total, D1, T0900, NumCell))]

InitFaults ==
    /\ files = OneRowSheets
    /\ app_out = None
    /\ script_out = None
    /\ edits = 0
    /\ boundary_result = None
    /\ NoFilterCall

RemoveFile ==
    \E f \in DOMAIN files :
        /\ app_out = None /\ script_out = None
        /\ edits < MaxFaults
        /\ files' = [g \in DOMAIN files \ {f} |-> files[g]]
        /\ edits' = edits + 1
        /\ UNCHANGED <<app_out, script_out, df, args, filtered, metric, boundary_result>>

PutFaultyRow ==
    \E f \in RowFiles : \E row \in FaultyRows(f) \cup OtherRows(f) : AppendRow(f, row, MaxFaults)

\* The clearing summary left with nothing under its units row.
TruncateClearing ==
    /\ app_out = None /\ script_out = None
    /\ edits < MaxFaults
    /\ "clearing" \in DOMAIN files
    /\ Len(files["clearing"]) > 1
    /\ files' = [files EXCEPT !["clearing"] = <<UnitsRow("clearing")>>]
    /\ edits' = edits + 1
    /\ UNCHANGED <<app_out, script_out, df, args, filtered, metric, boundary_result>>

NextFaults == RemoveFile \/ PutFaultyRow \/ TruncateClearing \/ RunApp \/ RunScript

SpecFaults == InitFaults /\ [][NextFaults]_vars

----------------------------------------------------------------------------
(* Properties of the reconciliation *)

\* The unified tables the runs of this state returned.
Produced ==
    (IF app_out # None /\ app_out[1].result_df # None
     THEN {app_out[1].result_df[1]} ELSE {})
    \cup (IF script_out # None /\ script_out[1].result_df # None
          THEN {script_out[1].result_df[1]} ELSE {})

EpochRows(t, e) == SelectSeq(t.rows, LAMBDA r : r.epoch = e)

\* The six normalized tables that contribute to the forecast epoch.
ForecastTables ==
    <<df_load(files["load_forecast"]), df_renewable(files["renewable"]),
      df_disclosure(files["disclosure"]), df_tie_line(files["tie_line"]),
      df_hydro(files["hydro"]), df_price(files["price"])>>

KeysIn(t) == {KeyOf(t.rows[i]) : i \in 1..Len(t.rows)}

KeysOfAll(ts) == UNION {KeysIn(ts[i]) : i \in 1..Len(ts)}

KeyCount(t, k) == Cardinality({i \in 1..Len(t.rows) : KeyOf(t.rows[i]) = k})

AtLeastOne(n) == IF n = 0 THEN 1 ELSE n

\* The rows a full outer join of the tables ts has under key k: every table
\* contributes each of its rows of that key, or one row of missing values
\* when it has none.
RECURSIVE RowsUnderKey(_, _, _)
RowsUnderKey(ts, k, i) ==
    IF i > Len(ts) THEN 1
    ELSE AtLeastOne(KeyCount(ts[i], k)) * RowsUnderKey(ts, k, i + 1)

RECURSIVE OuterJoinCardinality(_, _)
OuterJoinCardinality(ts, keys) ==
    IF keys = {} THEN 0
    ELSE LET k == CHOOSE x \in keys : TRUE
         IN  RowsUnderKey(ts, k, 1) + OuterJoinCardinality(ts, keys \ {k})

HasRow(t, e, k) == \E i \in 1..Len(t.rows) : t.rows[i].epoch = e /\ KeyOf(t.rows[i]) = k

\* C1: the forecast-epoch rows of a unified table are as many as the full
\* outer join on (date, time_slot) of the six contributing forecast tables
\* has, and every key of a contributing table is the key of a forecast row.
C1_ForecastIsOuterJoin ==
    \A t \in Produced :
        LET ts == ForecastTables
            keys == KeysOfAll(ts)
        IN  /\ Len(EpochRows(t, DayAhead)) = OuterJoinCardinality(ts, keys)
            /\ \A k \in keys : HasRow(t, DayAhead, k)

\* A run on sheets where one interval is twice in the load forecast and once
\* in another forecast sheet, so that the join multiplies rows.
C1_Witness ==
    /\ Produced # {}
    /\ LET ts == ForecastTables
       IN  \E k \in KeysIn(ts[1]) :
               /\ KeyCount(ts[1], k) = 2
               /\ \E i \in 2..Len(ts) : KeyCount(ts[i], k) = 1

\* C2: the realtime-epoch rows of a unified table are exactly the rows of the
\* actual-telemetry sheet, one for one, whatever the realtime tie-line and
\* price sheets hold.
C2_RealtimeRowsAreActualRows ==
    \A t \in Produced :
        LET rt  == EpochRows(t, RealTime)
            act == df_actual(files["actual"])
        IN  /\ Len(rt) = Len(act.rows)
            /\ \A k \in KeysIn(act) :
                   Cardinality({i \in 1..Len(rt) : KeyOf(rt[i]) = k}) = KeyCount(act, k)

\* C3: the capacity column holds the one scalar of the clearing summary in
\* every forecast row and is missing in every realtime row.
C3_CapacityBroadcast ==
    \A t \in Produced :
        \A i \in 1..Len(t.rows) :
            LET r == t.rows[i]
            IN  /\ r.epoch = DayAhead =>
                     /\ \A j \in 1..Len(t.rows) :
                            t.rows[j].epoch = DayAhead =>
                                t.rows[j].online_capacity = r.online_capacity
                     /\ r.online_capacity
                            = extract_online_capacity(ClearingCell(files["clearing"]))
                /\ r.epoch = RealTime => IsNull(r.online_capacity)

\* A run that returned two forecast rows with the capacity 42.5 MW and a
\* realtime row.
C3_Witness ==
    \E t \in Produced :
        /\ Len(EpochRows(t, DayAhead)) >= 2
        /\ Len(EpochRows(t, RealTime)) >= 1
        /\ EpochRows(t, DayAhead)[1].online_capacity = 4250

\* C4: a unified table has the fifteen fixed columns in the fixed order and no
\* other (no helper sort column), and bidding_space and load_rate, which no
\* source fills, are missing in every row.
C4_FixedColumns ==
    \A t \in Produced :
        /\ t.columns = <<"date", "time_slot", "epoch", "bidding_space", "grid_load",
                         "wind", "solar", "renewable_load", "non_market_output",
                         "hydro_output", "tie_line_plan", "online_capacity",
                         "forecast_clearing_price", "realtime_clearing_price",
                         "load_rate">>
        /\ \A i \in 1..Len(t.rows) :
               /\ DOMAIN t.rows[i] = Range(t.columns)
               /\ IsNull(t.rows[i].bidding_space)
               /\ IsNull(t.rows[i].load_rate)

\* A run on sheets where only the load forecast and the actual telemetry hold
\* intervals.
C4_Witness ==
    \E t \in Produced :
        /\ Len(EpochRows(t, DayAhead)) >= 1
        /\ Len(EpochRows(t, RealTime)) >= 1
        /\ \A f \in RowFiles \ {"load_forecast", "actual"} : files[f] = EmptySheets[f]

EpochOrder(e) == IF e = DayAhead THEN 0 ELSE 1

\* C5: in a unified table no row stands before a row that precedes it by
\* (epoch, date, time of day); a row whose label is no HH:MM time is kept and
\* stands behind every row of its epoch and date whose label is one.
C5_Sorted ==
    \A t \in Produced :
        /\ \A i, j \in 1..Len(t.rows) :
               LET a == t.rows[i]
                   b == t.rows[j]
               IN  /\ (i < j) => EpochOrder(a.epoch) <= EpochOrder(b.epoch)
                   /\ (i < j /\ a.epoch = b.epoch) => a.date <= b.date
                   /\ (i < j /\ a.epoch = b.epoch /\ a.date = b.date
                         /\ to_time(a.time_slot) # NaT /\ to_time(b.time_slot) # NaT)
                        => to_time(a.time_slot) <= to_time(b.time_slot)
                   /\ (a.epoch = b.epoch /\ a.date = b.date
                         /\ to_time(a.time_slot) = NaT /\ to_time(b.time_slot) # NaT)
                        => j < i
        /\ \A k \in KeysOfAll(ForecastTables) : HasRow(t, DayAhead, k)
        /\ \A k \in KeysIn(df_actual(files["actual"])) : HasRow(t, RealTime, k)

\* A run on an actual-telemetry sheet that lists 24:00, then the next day,
\* then 9:00: the table has them as 9:00, 24:00, next day.
C5_Witness ==
    \E t \in Produced :
        /\ Len(files["actual"]) = 4
        /\ files["actual"][2][3] = T2400
        /\ files["actual"][3][2] = D2
        /\ files["actual"][4][3] = T0900
        /\ Map(LAMBDA r : r.time_slot, EpochRows(t, RealTime)) = <<T0900, T2400, T0900>>

\* The quantity columns each forecast table brings to the join.
ForecastQuantities ==
    <<{"grid_load"}, {"wind", "solar", "renewable_load"}, {"non_market_output"},
      {"tie_line_plan"}, {"hydro_output"}, {"forecast_clearing_price"}>>

\* Three of the six forecast tables hold one row each, of pairwise different
\* keys, and the other three hold none.
DisjointTriple(ts, S) ==
    /\ Cardinality(S) = 3
    /\ \A i \in S : Len(ts[i].rows) = 1
    /\ \A i \in (1..Len(ts)) \ S : Len(ts[i].rows) = 0
    /\ \A i, j \in S : i # j => KeyOf(ts[i].rows[1]) # KeyOf(ts[j].rows[1])

\* C9: when three forecast sources contribute one time-slot each, pairwise
\* disjoint, and the others none, the forecast epoch has exactly three rows,
\* and the row of each source carries that source's quantities and has the
\* quantities of the other two missing.
C9_DisjointSlots ==
    \A t \in Produced :
        LET ts == ForecastTables
            fc == EpochRows(t, DayAhead)
        IN  \A S \in SUBSET (1..Len(ts)) :
                DisjointTriple(ts, S) =>
                    /\ Len(fc) = 3
                    /\ \A i \in S :
                           \E n \in 1..Len(fc) :
                               /\ KeyOf(fc[n]) = KeyOf(ts[i].rows[1])
                               /\ \A q \in ForecastQuantities[i] :
                                      ~IsNull(fc[n][q]) /\ fc[n][q] = ts[i].rows[1][q]
                               /\ \A j \in S \ {i} :
                                      \A q \in ForecastQuantities[j] : IsNull(fc[n][q])

\* A run on sheets where the load forecast, the renewable forecast and the
\* day-ahead tie-line plan hold one interval each, all different.
C9_Witness ==
    /\ Produced # {}
    /\ DisjointTriple(ForecastTables, {1, 2, 4})

----------------------------------------------------------------------------
(* Properties of the reconciliation on faulty inputs *)

\* C7: when a required file is absent, the run returns no table and an error
\* that names an absent file.
C7_MissingFileNamed ==
    (FileNames \ DOMAIN files # {}) =>
        /\ app_out # None =>
               /\ app_out[1].result_df = None
               /\ app_out[1].error # None
               /\ app_out[1].error[1][1] = "missing_file"
               /\ app_out[1].error[1][2] \notin DOMAIN files
        /\ script_out # None =>
               /\ script_out[1].result_df = None
               /\ script_out[1].raised # None
               /\ script_out[1].raised[1][1] = "FileNotFoundError"
               /\ script_out[1].raised[1][2] \notin DOMAIN files

\* The rows of table t whose key is that of a sheet row with a quantity cell
\* that is no number have the quantity q missing.
JunkIsNull(t, e, sheet, col, q) ==
    \A i \in 2..Len(sheet) :
        (~to_datetime_raises(sheet[i][2]) /\ IsNull(to_numeric(sheet[i][col + 1]))) =>
            \A n \in 1..Len(t.rows) :
                (t.rows[n].epoch = e
                   /\ KeyOf(t.rows[n]) = <<to_date(sheet[i][2]), astype_str(sheet[i][3])>>)
                    => IsNull(t.rows[n][q])

\* C8: with all nine files there (and a row in the clearing summary), a run
\* ends with a table and no error whatever the cells hold, and a quantity cell
\* that is no number is missing in the table.
C8_MalformedCellsNeverAbort ==
    (FileNames \subseteq DOMAIN files /\ Len(files["clearing"]) > 1) =>
        /\ app_out # None => app_out[1].result_df # None /\ app_out[1].error = None
        /\ script_out # None =>
               script_out[1].result_df # None /\ script_out[1].raised = None
        /\ \A t \in Produced :
               /\ JunkIsNull(t, RealTime, files["actual"], 3, "grid_load")
               /\ JunkIsNull(t, RealTime, files["actual"], 11, "non_market_output")

----------------------------------------------------------------------------
(* FilterEngine: PowerDataAnalyzer.load_data and filter_by_price_range *)

\* The columns of the sheet 交易量价数据汇总 the filter reads:
\*   date 日期, company 公司名称, unit 机组名称, unit_dimension 机组维度,
\*   interprov_price 省间日前出清价格, da_node_price 日前出清节点价格,
\*   rt_node_price 日内出清节点价格

\* The unit groups: 未知, 机组1&3组, 机组2&4组, 其他机组.
Unknown == <<"unknown">>

Group13 == <<"group_1_3">>

Group24 == <<"group_2_4">>

OtherUnits == <<"other_units">>

\* The place of the first digit of s at or after i, 0 when there is none.
RECURSIVE FirstDigit(_, _)
FirstDigit(s, i) ==
    IF i > Len(s) THEN 0 ELSE IF IsDigit(s[i]) THEN i ELSE FirstDigit(s, i + 1)

\* A derivation that reads one digit where the code reads the whole number.
determine_dimension_of_one_digit(unit_name) ==
    IF unit_name = <<>> THEN Unknown
    ELSE LET i == FirstDigit(unit_name, 1)
         IN  IF i = 0 THEN Unknown
             ELSE IF DigitVal(unit_name[i]) \in {1, 3} THEN Group13
             ELSE IF DigitVal(unit_name[i]) \in {2, 4} THEN Group24
             ELSE OtherUnits

\* determine_dimension: the group of the first number (\d+) in the unit name.
determine_dimension(unit_name) ==
    IF unit_name = <<>> THEN Unknown
    ELSE LET i == FirstDigit(unit_name, 1)
         IN  IF i = 0 THEN Unknown
             ELSE LET unit_no == NumVal(SubSeq(unit_name, i, DigitRunEnd(unit_name, i) - 1))
                  IN  IF unit_no \in {1, 3} THEN Group13
                      ELSE IF unit_no \in {2, 4} THEN Group24
                      ELSE OtherUnits

\* _add_unit_dimension_column: the column 机组维度, when 机组名称 is there.
add_unit_dimension_column(t) ==
    IF "unit" \notin Range(t.columns) THEN t
    ELSE assign(t, "unit_dimension", LAMBDA r : determine_dimension(r.unit))

\* load_data: the sheet as read, with the unit group of every row.
load_data(sheet) == add_unit_dimension_column(sheet)

\* pd.to_datetime(cell, errors='coerce'): NaT for what is no date.
to_datetime_coerce(cell) == IF IsIsoDate(cell) THEN to_date(cell) ELSE NaT

\* df[mask]: the rows the mask holds for, in their order.
Where(t, mask(_)) == [columns |-> t.columns, rows |-> SelectSeq(t.rows, mask)]

\* The comparisons of a numeric column with a number; a missing value
\* compares False with everything.
\* ge with the boundary left out, as > would.
ge_dropping_boundary(v, n) == ~IsNull(v) /\ v > n

ge(v, n) == ~IsNull(v) /\ v >= n

\* gt with the boundary taken in, as >= would.
gt_taking_boundary(v, n) == ~IsNull(v) /\ v >= n

gt(v, n) == ~IsNull(v) /\ v > n

le(v, n) == ~IsNull(v) /\ v =< n

lt(v, n) == ~IsNull(v) /\ v < n

\* Lines 119-129, the price bounds on the column price_column.
price_filter(t, a) ==
    LET pc == a.price_column
        f1 == IF a.min_price # None
              THEN IF a.include_min_boundary
                   THEN Where(t, LAMBDA r : ge(r[pc], a.min_price[1]))
                   ELSE Where(t, LAMBDA r : gt(r[pc], a.min_price[1]))
              ELSE t
    IN  IF a.max_price # None
        THEN IF a.include_max_boundary
             THEN Where(f1, LAMBDA r : le(r[pc], a.max_price[1]))
             ELSE Where(f1, LAMBDA r : lt(r[pc], a.max_price[1]))
        ELSE f1

\* date_filter with the end date itself left out.
date_filter_exclusive_end(t, a) ==
    IF a.date_column \notin Range(t.columns) THEN t
    ELSE LET dc == a.date_column
             f1 == IF a.start_date # None
                   THEN Where(t, LAMBDA r :
                            ge(to_datetime_coerce(r[dc]), to_date(a.start_date[1])))
                   ELSE t
         IN  IF a.end_date # None
             THEN Where(f1, LAMBDA r :
                      lt(to_datetime_coerce(r[dc]), to_date(a.end_date[1])))
             ELSE f1

\* Lines 132-145, the date bounds, both inclusive.
date_filter(t, a) ==
    IF a.date_column \notin Range(t.columns) THEN t
    ELSE LET dc == a.date_column
             f1 == IF a.start_date # None
                   THEN Where(t, LAMBDA r :
                            ge(to_datetime_coerce(r[dc]), to_date(a.start_date[1])))
                   ELSE t
         IN  IF a.end_date # None
             THEN Where(f1, LAMBDA r :
                      le(to_datetime_coerce(r[dc]), to_date(a.end_date[1])))
             ELSE f1

\* Lines 150-160: an exact match on column c when the argument is given and
\* the column is there. A missing cell (NaN) equals nothing, not even an
\* argument that is NaN itself.
match_filter(t, c, arg) ==
    IF arg # None /\ c \in Range(t.columns)
    THEN Where(t, LAMBDA r : r[c] # <<>> /\ r[c] = arg[1])
    ELSE t

\* What the call prints: the two warnings of lines 147 and 162.
filter_warnings(t, a) ==
    (IF a.date_column \notin Range(t.columns)
        /\ (a.start_date # None \/ a.end_date # None)
     THEN {"no_date_column"} ELSE {})
    \cup
    (IF a.unit_dimension # None /\ "unit_dimension" \notin Range(t.columns)
     THEN {"no_unit_dimension_column"} ELSE {})

\* What the call raises, None when it returns: a KeyError for a price column
\* that is not there (only a bound reads it), the parse error of a bound of
\* the date filter that is no date.
filter_raises(t, a) ==
    IF (a.min_price # None \/ a.max_price # None)
       /\ a.price_column \notin Range(t.columns)
    THEN Some("KeyError")
    ELSE IF a.date_column \in Range(t.columns)
            /\ \/ (a.start_date # None /\ to_datetime_raises(a.start_date[1]))
               \/ (a.end_date # None /\ to_datetime_raises(a.end_date[1]))
    THEN Some("DateParseError")
    ELSE None

\* filter_by_price_range on the table t (self.df, which it copies).
filter_by_price_range(t, a) ==
    IF filter_raises(t, a) # None
    THEN [result |-> None, raised |-> filter_raises(t, a), warnings |-> {}]
    ELSE LET f1 == price_filter(t, a)
             f2 == date_filter(f1, a)
             f3 == match_filter(f2, "company", a.company_name)
             f4 == match_filter(f3, "unit", a.unit_name)
             f5 == match_filter(f4, "unit_dimension", a.unit_dimension)
         IN  [result |-> Some(f5), raised |-> None, warnings |-> filter_warnings(t, a)]

\* self.df after a call that returned out: the call filters a copy
\* (self.df.copy(), line 116) and every df[mask] is a new table, so self.df is
\* the table it was.
self_df_in_place(t, out) == IF out.result # None THEN out.result[1] ELSE t

self_df_after(t, out) == t

----------------------------------------------------------------------------
(* The state machine of the analyzer: a loaded table and calls of the filter *)

\* How many rows the loaded table has at most.
MaxRows == 2

TradeColumns ==
    <<"date", "company", "unit", "interprov_price", "da_node_price", "rt_node_price">>

TradeRow(d, c, u, ip, da, rt) ==
    [x \in Range(TradeColumns) |->
        CASE x = "date" -> d [] x = "company" -> c [] x = "unit" -> u
          [] x = "interprov_price" -> ip [] x = "da_node_price" -> da
          [] OTHER -> rt]

\* Rows with prices on, between and beyond the bounds 100 and 200 of the
\* calls, and with a missing price, date and unit.
TradeRows ==
    { TradeRow(D1,   <<"A">>, <<"u", "1">>, 100, 150, 150),
      TradeRow(D2,   <<"B">>, <<"u", "2">>, 150, NaN, 100),
      TradeRow(Junk, <<"A">>, <<"u", "5">>, 200, 250, 200),
      TradeRow(D1,   <<"B">>, <<>>,         NaN, 100, NaN),
      TradeRow(D2,   <<"A">>, <<"u", "1">>, 50,  200, 250) }

\* The columns a filter parameter refers to, any of which a sheet may lack.
FilterColumns == {"date", "company", "unit", "interprov_price", "da_node_price"}

\* The sheets of up to MaxRows rows, and the one-row sheets that lack one of
\* the columns the filter refers to.
TradeSheets ==
    { [columns |-> TradeColumns, rows |-> rs] :
        rs \in UNION { [1..n -> TradeRows] : n \in 0..MaxRows } }
    \cup
    { drop([columns |-> TradeColumns, rows |-> <<r>>], {c}) :
        r \in TradeRows, c \in FilterColumns }

\* The arguments of a call; date_column keeps its default.
FilterArgs ==
    [min_price : {None, Some(100)}, max_price : {None, Some(200)},
     price_column : {"interprov_price", "da_node_price"},
     start_date : {None, Some(D2)}, end_date : {None, Some(D1)},
     date_column : {"date"},
     company_name : {None, Some(<<"A">>)}, unit_name : {None, Some(<<"u", "1">>)},
     unit_dimension : {None, Some(Group13)},
     include_min_boundary : BOOLEAN, include_max_boundary : BOOLEAN]

\* PowerDataAnalyzer(excel_path): the table is loaded, nothing is filtered yet.
InitAnalyzer ==
    /\ files = EmptySheets
    /\ app_out = None
    /\ script_out = None
    /\ edits = 0
    /\ boundary_result = None
    /\ \E sheet \in TradeSheets : df = load_data(sheet)
    /\ args = None
    /\ filtered = None
    /\ metric = None

\* The call of filter_by_price_range on the loaded table.
Filter ==
    \E a \in FilterArgs :
        /\ args = None
        /\ args' = Some(a)
        /\ filtered' = Some(filter_by_price_range(df, a))
        /\ df' = self_df_after(df, filter_by_price_range(df, a))
        /\ UNCHANGED <<files, app_out, script_out, edits, metric, boundary_result>>

NextAnalyzer == Filter

SpecAnalyzer == InitAnalyzer /\ [][NextAnalyzer]_vars

----------------------------------------------------------------------------
(* Properties of the filter *)

\* The arguments a with both price bounds unset.
WithoutPriceBounds(a) == [a EXCEPT !.min_price = None, !.max_price = None]

\* A price v is within the bounds of a: above min_price (or on it when
\* include_min_boundary), below max_price (or on it when include_max_boundary),
\* a bound that is unset asking nothing.
WithinBounds(v, a) ==
    /\ a.min_price # None =>
           IF a.include_min_boundary THEN v >= a.min_price[1] ELSE v > a.min_price[1]
    /\ a.max_price # None =>
           IF a.include_max_boundary THEN v =< a.max_price[1] ELSE v < a.max_price[1]

\* The rows the call returned are those the same call without price bounds
\* returns and that pass(row, a) holds for.
PriceFilterIs(pass(_, _)) ==
    (/\ filtered # None /\ filtered[1].raised = None
     /\ args[1].price_column \in Range(df.columns)) =>
        LET a == args[1]
            rest == filter_by_price_range(df, WithoutPriceBounds(a)).result[1]
        IN  filtered[1].result[1].rows = SelectSeq(rest.rows, LAMBDA r : pass(r, a))

\* C10, as amended: all other criteria being equal, a row passes the price
\* filter iff its value in the column price_column is within the bounds, the
\* two flags acting independently and an unset bound asking nothing; a row
\* with a missing price fails whenever at least one bound is set (and passes
\* when none is).
C10_PriceFilter ==
    PriceFilterIs(LAMBDA r, a :
        /\ (a.min_price # None \/ a.max_price # None) => ~IsNull(r[a.price_column])
        /\ ~IsNull(r[a.price_column]) => WithinBounds(r[a.price_column], a))

\* C10, as claimed: a row passes the price filter iff its price is within the
\* bounds, and a row with a missing price fails the filter.
C10_NullPriceAlwaysFails ==
    PriceFilterIs(LAMBDA r, a :
        ~IsNull(r[a.price_column]) /\ WithinBounds(r[a.price_column], a))

\* A call with both bounds set, on a table with a row on the lower bound and
\* a row with no price, that returned some row.
C10_Witness ==
    /\ filtered # None /\ filtered[1].raised = None
    /\ args[1].price_column \in Range(df.columns)
    /\ args[1].min_price # None /\ args[1].max_price # None
    /\ \E i \in 1..Len(df.rows) : df.rows[i][args[1].price_column] = args[1].min_price[1]
    /\ \E i \in 1..Len(df.rows) : IsNull(df.rows[i][args[1].price_column])
    /\ filtered[1].result[1].rows # <<>>

\* Whether row r is among rows.
RowIn(r, rows) == \E j \in 1..Len(rows) : rows[j] = r

\* The rows a call with the arguments a returns.
RowsOf(t, a) == filter_by_price_range(t, a).result[1].rows

\* C11: with min_price = 100, a row priced exactly 100 that passes every
\* other criterion is left out when include_min_boundary is False and is
\* returned when it is True.
C11_MinBoundary ==
    (filtered # None /\ filtered[1].raised = None /\ args[1].min_price = Some(100)) =>
        LET a == args[1]
            rest == RowsOf(df, [a EXCEPT !.min_price = None])
        IN  \A i \in 1..Len(rest) :
                rest[i][a.price_column] = 100 =>
                    (a.include_min_boundary <=> RowIn(rest[i], filtered[1].result[1].rows))

\* A call with min_price = 100 exclusive on a table with a row priced 100
\* that the other criteria let through, and another row that is returned.
C11_Witness ==
    /\ filtered # None /\ filtered[1].raised = None
    /\ args[1].min_price = Some(100) /\ ~args[1].include_min_boundary
    /\ \E r \in Range(RowsOf(df, [args[1] EXCEPT !.min_price = None])) :
           r[args[1].price_column] = 100
    /\ filtered[1].result[1].rows # <<>>

\* The arguments a with both date bounds unset.
WithoutDateBounds(a) == [a EXCEPT !.start_date = None, !.end_date = None]

\* The date cell is a date within the bounds of a, both ends taken in.
WithinDates(cell, a) ==
    /\ IsIsoDate(cell)
    /\ a.start_date # None => to_date(cell) >= to_date(a.start_date[1])
    /\ a.end_date # None => to_date(cell) =< to_date(a.end_date[1])

\* C12: when start_date or end_date is given, the rows returned are those
\* the same call without date bounds returns whose date is on or after
\* start_date and on or before end_date; a row whose date is no date is not
\* returned.
C12_DateFilter ==
    (/\ filtered # None /\ filtered[1].raised = None
     /\ args[1].date_column \in Range(df.columns)
     /\ (args[1].start_date # None \/ args[1].end_date # None)) =>
        LET a == args[1]
        IN  filtered[1].result[1].rows =
                SelectSeq(RowsOf(df, WithoutDateBounds(a)),
                          LAMBDA r : WithinDates(r[a.date_column], a))

\* A call with an end date on a table with a row of that very date, which is
\* returned, and a row whose date is no date.
C12_Witness ==
    /\ filtered # None /\ filtered[1].raised = None
    /\ args[1].date_column \in Range(df.columns)
    /\ args[1].end_date # None /\ args[1].start_date = None
    /\ \E r \in Range(filtered[1].result[1].rows) : r[args[1].date_column] = args[1].end_date[1]
    /\ \E r \in Range(RowsOf(df, WithoutDateBounds(args[1]))) :
           ~IsIsoDate(r[args[1].date_column])

\* The parameters of the call a that refer to a column table t lacks.
AbsentColumnParams(t, a) ==
    LET cols == Range(t.columns)
    IN  (IF (a.min_price # None \/ a.max_price # None) /\ a.price_column \notin cols
         THEN {"price"} ELSE {})
        \cup (IF (a.start_date # None \/ a.end_date # None) /\ a.date_column \notin cols
              THEN {"date"} ELSE {})
        \cup (IF a.company_name # None /\ "company" \notin cols THEN {"company"} ELSE {})
        \cup (IF a.unit_name # None /\ "unit" \notin cols THEN {"unit"} ELSE {})
        \cup (IF a.unit_dimension # None /\ "unit_dimension" \notin cols
              THEN {"unit_dimension"} ELSE {})

\* The arguments a with the parameters ps unset.
Unset(a, ps) ==
    [a EXCEPT !.min_price = IF "price" \in ps THEN None ELSE @,
              !.max_price = IF "price" \in ps THEN None ELSE @,
              !.start_date = IF "date" \in ps THEN None ELSE @,
              !.end_date = IF "date" \in ps THEN None ELSE @,
              !.company_name = IF "company" \in ps THEN None ELSE @,
              !.unit_name = IF "unit" \in ps THEN None ELSE @,
              !.unit_dimension = IF "unit_dimension" \in ps THEN None ELSE @]

\* C13: a call whose parameters refer to a column the table lacks returns
\* without raising, returns what the call without those parameters returns,
\* and gives a warning.
C13_AbsentColumnIsNoOpWithWarning ==
    (filtered # None /\ AbsentColumnParams(df, args[1]) # {}) =>
        /\ filtered[1].raised = None
        /\ filtered[1].result[1].rows
               = RowsOf(df, Unset(args[1], AbsentColumnParams(df, args[1])))
        /\ filtered[1].warnings # {}

----------------------------------------------------------------------------
(* MetricsEngine: the calculate_* methods of PowerDataAnalyzer *)

\* The further columns of 交易量价数据汇总 the metrics read:
\*   da_power 日前中标出力, actual_output 日内实际出力,
\*   ip_da_power 省间日前出清电力 (its price is interprov_price 省间日前出清价格),
\*   ip_rt_power 省间实时出清电力, ip_rt_price 省间实时出清价格,
\*   ip_total 省间中标总量,
\*   ml_intra_power 省内中长期上网电量, ml_intra_price 省内中长期均价,
\*   ml_inter_power 省间中长期上网电量, ml_inter_price 省间中长期均价

\* A float of a metric is the exact fraction <<numerator, denominator>> in
\* lowest terms (the cells are whole and not negative); <<0, 0>> is nan.
RECURSIVE GCD(_, _)
GCD(a, b) == IF b = 0 THEN a ELSE GCD(b, a % b)

Frac(n, d) == <<n \div GCD(n, d), d \div GCD(n, d)>>

fmul(x, y) == Frac(x[1] * y[1], x[2] * y[2])

fdiv(x, y) == Frac(x[1] * y[2], x[2] * y[1])

nan == <<0, 0>>

\* The companies of power_conversion_factors (同华, 塔山, 阳高, 同达, 王坪, 蒲洲,
\* 河津, 临汾, 侯马) with the capacity each factor 660/capacity divides by.
Tashan == <<"Tashan">>

FactorCapacity ==
    [c \in {<<"Tonghua">>, Tashan, <<"Yanggao">>, <<"Tongda">>, <<"Wangping">>,
            <<"Puzhou">>, <<"Hejin">>, <<"Linfen">>, <<"Houma">>} |->
        CASE c = <<"Tonghua">> -> 660 [] c = Tashan -> 600
          [] c \in {<<"Yanggao">>, <<"Puzhou">>, <<"Hejin">>} -> 350
          [] c = <<"Tongda">> -> 330 [] c = <<"Wangping">> -> 200
          [] OTHER -> 300]

power_conversion_factors == [c \in DOMAIN FactorCapacity |-> Frac(660, FactorCapacity[c])]

default_power_conversion_factor == <<1, 1>>

\* The factor of a company whose capacity were not divided into 660.
factor_always_default(company_name) == default_power_conversion_factor

\* _get_power_conversion_factor(company_name), company_name None or <<name>>.
get_power_conversion_factor(company_name) ==
    IF company_name = None THEN default_power_conversion_factor
    ELSE IF company_name[1] \in DOMAIN power_conversion_factors
         THEN power_conversion_factors[company_name[1]]
         ELSE default_power_conversion_factor

RECURSIVE SumSeq(_)
SumSeq(xs) == IF xs = <<>> THEN 0 ELSE Head(xs) + SumSeq(Tail(xs))

\* Series.fillna(0) on one value.
fillna0(v) == IF IsNull(v) THEN 0 ELSE v

\* Series.sum(): the sum of the values there are, 0 when there is none.
col_sum(t, c) == SumSeq(Map(LAMBDA r : fillna0(r[c]), t.rows))

\* Series.mean(): the mean of the values there are, nan when there is none.
col_mean(t, c) ==
    LET there == SelectSeq(t.rows, LAMBDA r : ~IsNull(r[c]))
    IN  IF there = <<>> THEN nan ELSE Frac(col_sum(t, c), Len(there))

\* Realtime hours filtered on the intraday price alone.
filter_args_intraday_for_realtime(m, a) ==
    IF m = 2 THEN [a EXCEPT !.price_column = "rt_node_price"]
    ELSE IF m \in {1, 3, 4, 7, 8} THEN [a EXCEPT !.price_column = "da_node_price"]
    ELSE a

\* The filter arguments of a metric call: metrics 1-4, 7 and 8 filter on
\* 日前出清节点价格, the others on their price_column.
filter_args(m, a) ==
    IF m \in {1, 2, 3, 4, 7, 8} THEN [a EXCEPT !.price_column = "da_node_price"] ELSE a

\* hours_of counting a row as an hour.
hours_of_whole_rows(t) == Frac(Len(t.rows), 1)

\* len(filtered) / 4.
hours_of(t) == Frac(Len(t.rows), 4)

\* realtime_stage left out.
realtime_stage_skipped(t, a) == t

\* Lines 243-254: the same bounds once more, on 日内出清节点价格 when it is there.
realtime_stage(t, a) ==
    IF "rt_node_price" \in Range(t.columns)
    THEN price_filter(t, [a EXCEPT !.price_column = "rt_node_price"])
    ELSE t

\* weighted_avg without the test of the denominator: 0.0 / 0.0 is nan.
weighted_avg_unguarded(t, p1, c1, p2, c2) ==
    LET numerator == SumSeq(Map(LAMBDA r : fillna0(r[p1]) * fillna0(r[c1])
                                          + fillna0(r[p2]) * fillna0(r[c2]), t.rows))
        denominator == SumSeq(Map(LAMBDA r : fillna0(r[p2]) + fillna0(r[p1]), t.rows))
    IN  IF denominator = 0 THEN nan ELSE Frac(numerator, denominator)

\* Lines 363-375 and 595-609: sum(p1 * c1 + p2 * c2) / sum(p2 + p1) with the
\* missing values as 0, and 0.0 when the denominator is 0.
weighted_avg(t, p1, c1, p2, c2) ==
    LET numerator == SumSeq(Map(LAMBDA r : fillna0(r[p1]) * fillna0(r[c1])
                                          + fillna0(r[p2]) * fillna0(r[c2]), t.rows))
        denominator == SumSeq(Map(LAMBDA r : fillna0(r[p2]) + fillna0(r[p1]), t.rows))
    IN  IF denominator = 0 THEN <<0, 1>> ELSE Frac(numerator, denominator)

\* per_hour without the division of the sum by 4.
per_hour_not_quartered(t, total, company_name) ==
    IF t.rows = <<>> THEN <<0, 1>>
    ELSE fdiv(fmul(<<total, 1>>, get_power_conversion_factor(company_name)), hours_of(t))

\* Lines 456-465 and 498-507: 0.0 on an empty table, else
\* (total / 4 * factor) / hours.
per_hour(t, total, company_name) ==
    IF t.rows = <<>> THEN <<0, 1>>
    ELSE fdiv(fmul(Frac(total, 4), get_power_conversion_factor(company_name)), hours_of(t))

\* inter_provincial_power without fillna(0): a row with one volume missing
\* adds nothing.
inter_provincial_power_no_fillna(t, company_name) ==
    LET cols == Range(t.columns)
        both == SelectSeq(t.rows, LAMBDA r : ~IsNull(r.ip_da_power) /\ ~IsNull(r.ip_rt_power))
    IN  IF {"ip_da_power", "ip_rt_power"} \subseteq cols
        THEN [value |-> fmul(<<SumSeq(Map(LAMBDA r : r.ip_da_power + r.ip_rt_power, both)), 1>>,
                             get_power_conversion_factor(company_name)),
              warnings |-> {}]
        ELSE IF "ip_total" \in cols
        THEN [value |-> fmul(<<col_sum(t, "ip_total"), 1>>,
                             get_power_conversion_factor(company_name)),
              warnings |-> {}]
        ELSE [value |-> <<0, 1>>, warnings |-> {"no_interprov_power_column"}]

\* Lines 411-423: the cross-provincial volume and the warning of line 419.
inter_provincial_power(t, company_name) ==
    LET cols == Range(t.columns)
    IN  IF {"ip_da_power", "ip_rt_power"} \subseteq cols
        THEN [value |-> fmul(<<SumSeq(Map(LAMBDA r : fillna0(r.ip_da_power)
                                                     + fillna0(r.ip_rt_power), t.rows)), 1>>,
                             get_power_conversion_factor(company_name)),
              warnings |-> {}]
        ELSE IF "ip_total" \in cols
        THEN [value |-> fmul(<<col_sum(t, "ip_total"), 1>>,
                             get_power_conversion_factor(company_name)),
              warnings |-> {}]
        ELSE [value |-> <<0, 1>>, warnings |-> {"no_interprov_power_column"}]

\* The columns metric m indexes on the filtered table t without testing that
\* they are there.
indexed_columns(m, t) ==
    CASE m = 3 -> {"da_node_price"}
      [] m = 4 -> {"rt_node_price"}
      [] m = 5 -> {"ip_da_power", "interprov_price", "ip_rt_power", "ip_rt_price"}
      [] m = 7 -> IF t.rows = <<>> THEN {} ELSE {"da_power"}
      [] m = 8 -> IF t.rows = <<>> THEN {} ELSE {"actual_output"}
      [] m = 9 -> IF t.rows = <<>> THEN {} ELSE {"ml_intra_power", "ml_inter_power"}
      [] m = 10 -> {"ml_intra_power", "ml_intra_price", "ml_inter_power", "ml_inter_price"}
      [] OTHER -> {}

\* The value of metric m on the filtered table t.
metric_value(m, t, a) ==
    CASE m = 1 -> hours_of(t)
      [] m = 2 -> hours_of(realtime_stage(t, a))
      [] m = 3 -> col_mean(t, "da_node_price")
      [] m = 4 -> col_mean(t, "rt_node_price")
      [] m = 5 -> weighted_avg(t, "ip_da_power", "interprov_price", "ip_rt_power", "ip_rt_price")
      [] m = 6 -> inter_provincial_power(t, a.company_name).value
      [] m = 7 -> per_hour(t, col_sum(t, "da_power"), a.company_name)
      [] m = 8 -> per_hour(t, col_sum(t, "actual_output"), a.company_name)
      [] m = 9 -> IF t.rows = <<>> THEN <<0, 1>>
                  ELSE fdiv(fmul(<<SumSeq(Map(LAMBDA r : fillna0(r.ml_intra_power)
                                                        + fillna0(r.ml_inter_power), t.rows)), 1>>,
                                 get_power_conversion_factor(a.company_name)),
                            hours_of(t))
      [] OTHER -> weighted_avg(t, "ml_intra_power", "ml_intra_price",
                               "ml_inter_power", "ml_inter_price")

\* The ten calculate_* methods, by their number in analyze_all_metrics:
\* the filter, then the metric on what it returned.
calculate(m, t, a) ==
    LET out == filter_by_price_range(t, filter_args(m, a))
    IN  IF out.raised # None
        THEN [value |-> None, raised |-> out.raised, warnings |-> {}]
        ELSE IF ~(indexed_columns(m, out.result[1]) \subseteq Range(out.result[1].columns))
        THEN [value |-> None, raised |-> Some("KeyError"), warnings |-> out.warnings]
        ELSE [value |-> Some(metric_value(m, out.result[1], a)), raised |-> None,
              warnings |-> out.warnings
                  \cup (IF m = 6 THEN inter_provincial_power(out.result[1], a.company_name).warnings
                        ELSE {})]

----------------------------------------------------------------------------
(* The state machine of the metrics: a loaded table and calculate_* calls *)

\* How many rows (quarter hours) the loaded table has at most.
MaxMetricRows == 4

MetricColumns ==
    TradeColumns \o
    <<"da_power", "actual_output", "ip_da_power", "ip_rt_power", "ip_rt_price",
      "ip_total", "ml_intra_power", "ml_intra_price", "ml_inter_power", "ml_inter_price">>

\* A quarter hour of 塔山 with the same price day-ahead and intraday; one whose
\* intraday price is beyond the upper bound 200 of the calls and whose volumes
\* are all missing or 0; one of a company without a factor, on the lower bound
\* 100 day-ahead and above it intraday.
MetricRows ==
    { [date |-> D1, company |-> Tashan, unit |-> <<"u", "1">>, interprov_price |-> 300,
       da_node_price |-> 150, rt_node_price |-> 150, da_power |-> 150,
       actual_output |-> 120, ip_da_power |-> 10, ip_rt_power |-> NaN,
       ip_rt_price |-> NaN, ip_total |-> 10, ml_intra_power |-> 20,
       ml_intra_price |-> 400, ml_inter_power |-> 0, ml_inter_price |-> NaN],
      [date |-> D1, company |-> Tashan, unit |-> <<"u", "1">>, interprov_price |-> NaN,
       da_node_price |-> 150, rt_node_price |-> 250, da_power |-> 150,
       actual_output |-> NaN, ip_da_power |-> NaN, ip_rt_power |-> 0,
       ip_rt_price |-> 100, ip_total |-> NaN, ml_intra_power |-> NaN,
       ml_intra_price |-> 400, ml_inter_power |-> 0, ml_inter_price |-> 500],
      [date |-> D2, company |-> <<"A">>, unit |-> <<"u", "2">>, interprov_price |-> 200,
       da_node_price |-> 100, rt_node_price |-> 120, da_power |-> NaN,
       actual_output |-> 90, ip_da_power |-> 30, ip_rt_power |-> 10,
       ip_rt_price |-> 100, ip_total |-> 40, ml_intra_power |-> 10,
       ml_intra_price |-> 300, ml_inter_power |-> 30, ml_inter_price |-> 500] }

\* The sheets of up to MaxMetricRows rows, and the one-row sheets without
\* 省间日前出清电力, with and without 省间中标总量.
MetricSheets ==
    { [columns |-> MetricColumns, rows |-> rs] :
        rs \in UNION { [1..n -> MetricRows] : n \in 0..MaxMetricRows } }
    \cup
    { drop([columns |-> MetricColumns, rows |-> <<r>>], cs) :
        r \in MetricRows, cs \in {{"ip_da_power"}, {"ip_da_power", "ip_total"}} }

\* The arguments of a calculate_* call; price_column keeps its default.
MetricArgs ==
    [min_price : {None, Some(100)}, max_price : {None, Some(200)},
     price_column : {"da_node_price"},
     start_date : {None}, end_date : {None}, date_column : {"date"},
     company_name : {None, Some(Tashan), Some(<<"A">>)},
     unit_name : {None}, unit_dimension : {None},
     include_min_boundary : BOOLEAN, include_max_boundary : BOOLEAN]

InitMetrics ==
    /\ files = EmptySheets
    /\ app_out = None
    /\ script_out = None
    /\ edits = 0
    /\ boundary_result = None
    /\ \E sheet \in MetricSheets : df = load_data(sheet)
    /\ args = None
    /\ filtered = None
    /\ metric = None

\* calculate_<m>(a): the call of the filter it makes and what it returns.
Call(m, a) ==
    /\ args' = Some(filter_args(m, a))
    /\ filtered' = Some(filter_by_price_range(df, filter_args(m, a)))
    /\ metric' = Some([name |-> m, args |-> a, out |-> calculate(m, df, a)])
    /\ df' = self_df_after(df, filter_by_price_range(df, filter_args(m, a)))
    /\ UNCHANGED <<files, app_out, script_out, edits, boundary_result>>

\* A first call of one of the ten metrics.
CallMetric ==
    \E m \in 1..10 : \E a \in MetricArgs : metric = None /\ Call(m, a)

\* The next metric with the same arguments, as analyze_all_metrics goes on
\* after a call that returned.
CallNextMetric ==
    /\ metric # None
    /\ metric[1].out.raised = None
    /\ metric[1].name < 10
    /\ Call(metric[1].name + 1, metric[1].args)

NextMetrics == CallMetric \/ CallNextMetric

SpecMetrics == InitMetrics /\ [][NextMetrics]_vars

----------------------------------------------------------------------------
(* Properties of the metrics *)

PassesBounds(v, a) ==
    /\ (a.min_price # None \/ a.max_price # None) => ~IsNull(v)
    /\ ~IsNull(v) => WithinBounds(v, a)

\* The number of quarter hours of the hours h.
Quarters(h) == (4 * h[1]) \div h[2]

\* The call of metric m that returned a value.
Returned(m) == metric # None /\ metric[1].name = m /\ metric[1].out.raised = None

\* C15: realtime hours are a quarter of the number of rows that pass the
\* filter on 日前出清节点价格 and whose 日内出清节点价格 passes the same bounds
\* with the same flags.
C15_RealtimeHours ==
    Returned(2) =>
        /\ args[1].price_column = "da_node_price"
        /\ 4 * metric[1].out.value[1][1] =
               metric[1].out.value[1][2]
               * Len(SelectSeq(filtered[1].result[1].rows,
                               LAMBDA r : PassesBounds(r.rt_node_price, metric[1].args)))

\* A call of realtime hours whose filter returned a row that the bounds on
\* the intraday price drop, and a row that they keep.
C15_Witness ==
    /\ Returned(2)
    /\ \E r \in Range(filtered[1].result[1].rows) :
           ~PassesBounds(r.rt_node_price, metric[1].args)
    /\ metric[1].out.value[1][1] > 0

\* The rows of t whose day-ahead and intraday node prices differ.
Diverging(t) ==
    {i \in 1..Len(t.rows) : t.rows[i].da_node_price # t.rows[i].rt_node_price}

\* Forecast hours less realtime hours for the arguments a, in quarter hours.
HoursGap(t, a) ==
    Quarters(calculate(1, t, a).value[1]) - Quarters(calculate(2, t, a).value[1])

\* C16, as amended: when the two node prices differ in exactly one row,
\* forecast hours and realtime hours for the same arguments differ by 0.25
\* if that row passes the filter on the day-ahead price and its intraday
\* price fails the bounds, and are equal otherwise.
C16_HoursGap ==
    (metric # None /\ Cardinality(Diverging(df)) = 1) =>
        LET a == metric[1].args
            r == df.rows[CHOOSE i \in Diverging(df) : TRUE]
            dropped == /\ RowIn(r, RowsOf(df, filter_args(1, a)))
                       /\ ~PassesBounds(r.rt_node_price, a)
        IN  HoursGap(df, a) = IF dropped THEN 1 ELSE 0

\* C16, as claimed: when the two node prices differ in exactly one row,
\* forecast hours and realtime hours for the same arguments differ by 0.25.
C16_HoursDifferByQuarter ==
    (metric # None /\ Cardinality(Diverging(df)) = 1) =>
        HoursGap(df, metric[1].args) = 1

\* A call on a table of three rows, one of them with differing node prices,
\* where the hours differ by 0.25.
C16_Witness ==
    /\ metric # None /\ Cardinality(Diverging(df)) = 1 /\ Len(df.rows) = 3
    /\ HoursGap(df, metric[1].args) = 1

\* The sum of volume c1 times price c2 over the rows, a missing value
\* counting as 0.
RECURSIVE Turnover(_, _, _)
Turnover(rows, c1, c2) ==
    IF rows = <<>> THEN 0
    ELSE (IF IsNull(rows[1][c1]) \/ IsNull(rows[1][c2]) THEN 0
          ELSE rows[1][c1] * rows[1][c2])
         + Turnover(Tail(rows), c1, c2)

\* The sum of column c over the rows, a missing value counting as 0.
RECURSIVE Volume(_, _)
Volume(rows, c) ==
    IF rows = <<>> THEN 0
    ELSE (IF IsNull(rows[1][c]) THEN 0 ELSE rows[1][c]) + Volume(Tail(rows), c)

\* No row has a volume in column c other than missing or 0.
NoVolume(rows, c) == \A i \in 1..Len(rows) : IsNull(rows[i][c]) \/ rows[i][c] = 0

\* The value v is the average of the prices c1, c2 weighted by the volumes
\* p1, p2 of the rows: 0.0 when no row has a volume, else
\* sum(volume * price) / sum(volume).
IsWeightedAverage(v, rows, p1, c1, p2, c2) ==
    IF NoVolume(rows, p1) /\ NoVolume(rows, p2)
    THEN v = <<0, 1>>
    ELSE /\ v[2] # 0
         /\ v[1] * (Volume(rows, p1) + Volume(rows, p2))
                = v[2] * (Turnover(rows, p1, c1) + Turnover(rows, p2, c2))

\* C17: the cross-provincial average price (metric 5) and the medium/long-
\* term weighted average price (metric 10) are exactly 0.0 when every volume
\* of the filtered rows is missing or 0 (also when no row passes), and else
\* sum(volume * price) / sum(volume) with missing values as 0.
C17_WeightedAverages ==
    /\ Returned(5) =>
           IsWeightedAverage(metric[1].out.value[1], filtered[1].result[1].rows,
                             "ip_da_power", "interprov_price", "ip_rt_power", "ip_rt_price")
    /\ Returned(10) =>
           IsWeightedAverage(metric[1].out.value[1], filtered[1].result[1].rows,
                             "ml_intra_power", "ml_intra_price",
                             "ml_inter_power", "ml_inter_price")

\* A call of metric 5 that returned 0.0 on rows, none of which has a volume.
C17_Witness ==
    /\ Returned(5)
    /\ filtered[1].result[1].rows # <<>>
    /\ NoVolume(filtered[1].result[1].rows, "ip_da_power")
    /\ NoVolume(filtered[1].result[1].rows, "ip_rt_power")
    /\ metric[1].out.value[1] = <<0, 1>>

\* A call of metric 7 for 塔山 whose filtered rows span one hour and have
\* 日前中标出力 summing to 600.
TashanHour ==
    /\ Returned(7)
    /\ metric[1].args.company_name = Some(Tashan)
    /\ Len(filtered[1].result[1].rows) = 4
    /\ Volume(filtered[1].result[1].rows, "da_power") = 600

\* C18, as amended: for company 塔山 (factor 660/600), when the filtered set
\* spans 1 hour and its 日前中标出力 sums to 600, forecast committed power
\* (metric 7) equals 165.0 (600 / 4 * 1.1 / 1).
C18_TashanPower == TashanHour => metric[1].out.value[1] = <<165, 1>>

\* C18, as claimed: in that case metric 7 equals 660.0.
C18_TashanPowerIs660 == TashanHour => metric[1].out.value[1] = <<660, 1>>

\* Such a call has been made.
C18_Witness == TashanHour /\ metric[1].out.value[1][2] = 1

\* The value v is (total / 4) * factor / hours for rows rows, hours being
\* rows / 4, and 0.0 for no rows.
IsPerHour(v, rows, total, factor) ==
    IF rows = <<>> THEN v = <<0, 1>>
    ELSE /\ v[2] # 0
         /\ v[1] * (4 * factor[2] * Len(rows)) = v[2] * (total * factor[1] * 4)

\* C19: forecast committed power (metric 7) and actual output power (metric
\* 8) are (sum of the output column / 4) * conversion factor / hours over the
\* filtered rows, hours being their number / 4, and 0.0 when no row passes.
C19_PowerPerHour ==
    /\ Returned(7) =>
           IsPerHour(metric[1].out.value[1], filtered[1].result[1].rows,
                     Volume(filtered[1].result[1].rows, "da_power"),
                     get_power_conversion_factor(metric[1].args.company_name))
    /\ Returned(8) =>
           IsPerHour(metric[1].out.value[1], filtered[1].result[1].rows,
                     Volume(filtered[1].result[1].rows, "actual_output"),
                     get_power_conversion_factor(metric[1].args.company_name))

\* A call of metric 8 for 塔山 on three rows with output.
C19_Witness ==
    /\ Returned(8)
    /\ metric[1].args.company_name = Some(Tashan)
    /\ Len(filtered[1].result[1].rows) = 3
    /\ Volume(filtered[1].result[1].rows, "actual_output") > 0

\* The conversion factor of a company: 660 over its capacity for the nine
\* companies of the table, 1.0 for any other and for none.
FactorOf(company_name) ==
    IF company_name # None /\ company_name[1] \in DOMAIN FactorCapacity
    THEN <<660, FactorCapacity[company_name[1]]>>
    ELSE <<1, 1>>

\* The value v is the factor of the company times total.
IsScaled(v, total, factor) == v[2] # 0 /\ v[1] * factor[2] = v[2] * total * factor[1]

\* C20: the cross-provincial committed volume (metric 6) is the factor times
\* the sum of 省间日前出清电力 + 省间实时出清电力 (missing as 0) when both columns
\* are there, else the factor times the sum of 省间中标总量 when that is there,
\* else 0.0 with a warning; the factor is the company's constant, 1.0 for an
\* unknown or unspecified company.
C20_InterProvincialVolume ==
    Returned(6) =>
        LET rows == filtered[1].result[1].rows
            cols == Range(filtered[1].result[1].columns)
            f == FactorOf(metric[1].args.company_name)
            v == metric[1].out.value[1]
        IN  IF {"ip_da_power", "ip_rt_power"} \subseteq cols
            THEN IsScaled(v, Volume(rows, "ip_da_power") + Volume(rows, "ip_rt_power"), f)
            ELSE IF "ip_total" \in cols
            THEN IsScaled(v, Volume(rows, "ip_total"), f)
            ELSE v = <<0, 1>> /\ metric[1].out.warnings # {}

\* A call of metric 6 for 塔山 on rows with both volume columns, one of them
\* with a missing volume, that returned more than 0.
C20_Witness ==
    /\ Returned(6)
    /\ metric[1].args.company_name = Some(Tashan)
    /\ "ip_da_power" \in Range(filtered[1].result[1].columns)
    /\ \E r \in Range(filtered[1].result[1].rows) : IsNull(r.ip_rt_power)
    /\ metric[1].out.value[1][1] > 0

----------------------------------------------------------------------------
(* The state machine of the loader: PowerDataAnalyzer(excel_path) on sheets
   whose unit names are drawn from short texts *)

\* How many characters a unit name has at most.
MaxNameLen == 3

NameChars == {"u", "0", "1", "2", "3", "5"}

\* The unit names: every text of up to MaxNameLen characters; the empty one
\* is the missing cell.
UnitNames == UNION { [1..n -> NameChars] : n \in 0..MaxNameLen }

\* One-row sheets with every unit name, and one without the column 机组名称.
UnitSheets ==
    { [columns |-> TradeColumns,
       rows |-> <<TradeRow(D1, <<"A">>, u, 100, 150, 150)>>] : u \in UnitNames }
    \cup
    { drop([columns |-> TradeColumns,
            rows |-> <<TradeRow(D1, <<"A">>, <<"u", "1">>, 100, 150, 150)>>], {"unit"}) }

\* Before the analyzer is constructed: no table.
InitLoader ==
    /\ files = EmptySheets
    /\ app_out = None
    /\ script_out = None
    /\ edits = 0
    /\ boundary_result = None
    /\ NoFilterCall

\* __init__: load_data reads the sheet and adds the unit group.
LoadData ==
    \E sheet \in UnitSheets :
        /\ df = <<>>
        /\ df' = load_data(sheet)
        /\ UNCHANGED <<files, app_out, script_out, edits, args, filtered, metric, boundary_result>>

NextLoader == LoadData

SpecLoader == InitLoader /\ [][NextLoader]_vars

\* The table is loaded and has the column 机组名称.
Loaded == df # <<>> /\ "unit" \in Range(df.columns)

\* n holds the digit c.
Contains(n, c) == \E i \in 1..Len(n) : n[i] = c

\* The first number of n is v: no digit before place i, digits from i to j,
\* no digit at j + 1.
FirstNumberIs(n, v) ==
    \E i \in 1..Len(n) : \E j \in i..Len(n) :
        /\ \A k \in 1..(i - 1) : ~IsDigit(n[k])
        /\ \A k \in i..j : IsDigit(n[k])
        /\ (j < Len(n) => ~IsDigit(n[j + 1]))
        /\ NumVal(SubSeq(n, i, j)) = v

\* The group the first number of n stands for.
GroupOfFirstNumber(n) ==
    IF ~(\E i \in 1..Len(n) : IsDigit(n[i])) THEN Unknown
    ELSE IF FirstNumberIs(n, 1) \/ FirstNumberIs(n, 3) THEN Group13
    ELSE IF FirstNumberIs(n, 2) \/ FirstNumberIs(n, 4) THEN Group24
    ELSE OtherUnits

\* C21 (amended): the unit group of every loaded row is the group of the
\* first number in its unit name: 1 and 3 give 机组1&3组, 2 and 4 give
\* 机组2&4组, any other number gives 其他机组, and a name without a digit or a
\* missing name gives 未知; two rows with the same name have the same group.
C21_GroupOfFirstNumber ==
    Loaded =>
        /\ "unit_dimension" \in Range(df.columns)
        /\ \A r \in Range(df.rows) : r.unit_dimension = GroupOfFirstNumber(r.unit)
        /\ \A r, s \in Range(df.rows) :
               r.unit = s.unit => r.unit_dimension = s.unit_dimension

\* C21 (as stated): every unit name that contains "3" is in 机组1&3组.
C21_ContainingThree ==
    Loaded =>
        \A r \in Range(df.rows) : Contains(r.unit, "3") => r.unit_dimension = Group13

\* A loaded row whose name contains "3" and "1" and whose first number is
\* neither: its group is 其他机组.
C21_Witness ==
    /\ Loaded
    /\ \E r \in Range(df.rows) :
           /\ Contains(r.unit, "3") /\ Contains(r.unit, "1")
           /\ r.unit_dimension = OtherUnits

----------------------------------------------------------------------------
(* MetricsCalculator: analyze_all_metrics, analyze_all_metrics_by_company and
   analyze_all_metrics_by_unit *)

\* The values with their repetitions left in.
unique_keeping_repetitions(xs) == xs

\* Series.unique(): the values in the order of their first appearance; a
\* missing cell is one of them.
RECURSIVE unique(_)
unique(xs) ==
    IF xs = <<>> THEN <<>>
    ELSE LET u == unique(SubSeq(xs, 1, Len(xs) - 1))
         IN  IF xs[Len(xs)] \in Range(u) THEN u ELSE Append(u, xs[Len(xs)])

\* df[c]: the cells of column c.
column(t, c) == [i \in 1..Len(t.rows) |-> t.rows[i][c]]

\* Series.dropna() on text cells.
dropna(xs) == SelectSeq(xs, LAMBDA x : x # <<>>)

\* ','.join(map(str, names)).
RECURSIVE join(_)
join(names) ==
    IF names = <<>> THEN <<>>
    ELSE IF Len(names) = 1 THEN astype_str(names[1])
    ELSE astype_str(names[1]) \o <<",">> \o join(Tail(names))

\* What ten calls that ended as out give: the values, or what the first call
\* that raised raised.
ten_values(out) ==
    LET bad == {m \in 1..10 : out[m].raised # None}
    IN  IF bad # {}
        THEN [values |-> None,
              raised |-> out[CHOOSE m \in bad : \A n \in bad : m <= n].raised]
        ELSE [values |-> Some([m \in 1..10 |-> out[m].value[1]]), raised |-> None]

\* The ten calculate_* calls with the arguments a, metric 1 first.
ten_metrics(t, a) == ten_values([m \in 1..10 |-> calculate(m, t, a)])

\* analyze_all_metrics: no call is given a price_column or a date_column.
analyze_all_metrics(t, a) ==
    ten_metrics(t, [a EXCEPT !.price_column = "da_node_price", !.date_column = "date"])

\* The keywords of a company's calls without unit_dimension.
company_kwargs_without_dimension(a, company) ==
    [a EXCEPT !.price_column = "da_node_price", !.date_column = "date",
              !.company_name = Some(company), !.unit_name = None,
              !.unit_dimension = None]

\* Lines 722-731: the keywords of the ten calls for one company; the method
\* has no unit_name.
company_kwargs(a, company) ==
    [a EXCEPT !.price_column = "da_node_price", !.date_column = "date",
              !.company_name = Some(company), !.unit_name = None]

\* Line 715: self.df['公司名称'].unique().
companies_of(t) == unique(column(t, "company"))

\* Lines 733-736: the rows of the company report from what the calls for
\* each company gave; the first call that raised ends the method.
company_rows(companies, out) ==
    LET bad == {i \in 1..Len(companies) : out[i].raised # None}
    IN  IF bad # {}
        THEN [rows |-> None,
              raised |-> out[CHOOSE i \in bad : \A j \in bad : i <= j].raised,
              warnings |-> {}]
        ELSE [rows |-> Some([i \in 1..Len(companies) |->
                               [company |-> companies[i], values |-> out[i].values[1]]]),
              raised |-> None, warnings |-> {}]

\* analyze_all_metrics_by_company: a row of ten metrics for every company, or
\* an empty table and a warning when there is no column 公司名称.
analyze_all_metrics_by_company(t, a) ==
    IF "company" \notin Range(t.columns)
    THEN [rows |-> Some(<<>>), raised |-> None, warnings |-> {"no_company_column"}]
    ELSE company_rows(companies_of(t),
                      [i \in 1..Len(companies_of(t)) |->
                          ten_metrics(t, company_kwargs(a, companies_of(t)[i]))])

\* Line 794: self.df[self.df['公司名称'] == company].
company_df(t, company) ==
    [columns |-> t.columns,
     rows |-> SelectSeq(t.rows, LAMBDA r : r.company # <<>> /\ r.company = company)]

\* Lines 796-799: the groups, or the unit names, of a company's rows.
targets_of(t, company, has_dimension) ==
    IF has_dimension THEN unique(dropna(column(company_df(t, company), "unit_dimension")))
    ELSE unique(column(company_df(t, company), "unit"))

\* Lines 802-811: the keywords of the ten calls for one target of a company.
unit_kwargs(a, company, target, has_dimension) ==
    [a EXCEPT !.price_column = "da_node_price", !.date_column = "date",
              !.company_name = Some(company),
              !.unit_name = IF has_dimension THEN None ELSE Some(target),
              !.unit_dimension = IF has_dimension THEN Some(target) ELSE None]

\* Lines 808-809: the unit names of the company's rows of a group, joined.
unit_name_list(t, company, target) ==
    join(unique(column(
        [columns |-> t.columns,
         rows |-> SelectSeq(company_df(t, company).rows,
                            LAMBDA r : r.unit_dimension = target)], "unit")))

\* Lines 793-801: the pairs of a company and one of its targets, in the order
\* of the two loops.
pairs_of(t, has_dimension) ==
    Flatten([i \in 1..Len(companies_of(t)) |->
                [k \in 1..Len(targets_of(t, companies_of(t)[i], has_dimension)) |->
                    <<companies_of(t)[i],
                      targets_of(t, companies_of(t)[i], has_dimension)[k]>>]])

\* Lines 803-812: the columns that name the row of a pair.
base_info(t, pair, has_dimension) ==
    IF has_dimension
    THEN [company |-> pair[1], unit_dimension |-> pair[2],
          unit_names |-> unit_name_list(t, pair[1], pair[2])]
    ELSE [company |-> pair[1], unit |-> pair[2]]

\* Lines 814-829: the rows of the unit report from what the calls for each
\* pair gave; the first call that raised ends the method.
unit_rows(info, out) ==
    LET bad == {i \in 1..Len(info) : out[i].raised # None}
    IN  IF bad # {}
        THEN [rows |-> None,
              raised |-> out[CHOOSE i \in bad : \A j \in bad : i <= j].raised,
              warnings |-> {}]
        ELSE [rows |-> Some([i \in 1..Len(info) |->
                               [x \in DOMAIN info[i] \cup {"values"} |->
                                   IF x = "values" THEN out[i].values[1] ELSE info[i][x]]]),
              raised |-> None, warnings |-> {}]

\* The unit report of the table t for the pairs ps.
unit_report(t, a, ps, has_dimension) ==
    unit_rows([i \in 1..Len(ps) |-> base_info(t, ps[i], has_dimension)],
              [i \in 1..Len(ps) |->
                  ten_metrics(t, unit_kwargs(a, ps[i][1], ps[i][2], has_dimension))])

\* analyze_all_metrics_by_unit: for every company a row of ten metrics for
\* each of its groups, or of its unit names; an empty table and a warning when
\* 公司名称 or 机组名称 is not there.
analyze_all_metrics_by_unit(t, a, use_unit_dimension) ==
    IF ~({"company", "unit"} \subseteq Range(t.columns))
    THEN [rows |-> Some(<<>>), raised |-> None, warnings |-> {"no_company_or_unit_column"}]
    ELSE unit_report(t, a,
                     pairs_of(t, use_unit_dimension /\ "unit_dimension" \in Range(t.columns)),
                     use_unit_dimension /\ "unit_dimension" \in Range(t.columns))

----------------------------------------------------------------------------
(* The state machine of the reports: a loaded table and one analyze_* call *)

\* How many rows (quarter hours) the loaded table of a report has at most.
MaxReportRows == 2

\* A quarter hour with the volumes of a plain row.
ReportRow(c, u, da, rt) ==
    [date |-> D1, company |-> c, unit |-> u, interprov_price |-> 200,
     da_node_price |-> da, rt_node_price |-> rt, da_power |-> 150,
     actual_output |-> 120, ip_da_power |-> 10, ip_rt_power |-> NaN,
     ip_rt_price |-> NaN, ip_total |-> 10, ml_intra_power |-> 20,
     ml_intra_price |-> 400, ml_inter_power |-> 0, ml_inter_price |-> NaN]

\* Units 1, 3 and 2 of 塔山, unit 1 and a row without unit name of company A,
\* and a row without company; prices within, on and beyond the bounds.
ReportRows ==
    { ReportRow(Tashan,  <<"u", "1">>, 150, 150),
      ReportRow(Tashan,  <<"u", "3">>, 150, 250),
      ReportRow(Tashan,  <<"u", "2">>, 100, 120),
      ReportRow(<<"A">>, <<"u", "1">>, 250, 150),
      ReportRow(<<"A">>, <<>>,         150, 150),
      ReportRow(<<>>,    <<"u", "2">>, 150, 150) }

\* The sheets of up to MaxReportRows rows, and one-row sheets without 公司名称
\* and without 机组名称.
ReportSheets ==
    { [columns |-> MetricColumns, rows |-> rs] :
        rs \in UNION { [1..n -> ReportRows] : n \in 0..MaxReportRows } }
    \cup
    { drop([columns |-> MetricColumns,
            rows |-> <<ReportRow(Tashan, <<"u", "1">>, 150, 150)>>], {c}) :
        c \in {"company", "unit"} }

\* The arguments of an analyze_* call.
ReportArgs ==
    [min_price : {None, Some(100)}, max_price : {None, Some(200)},
     price_column : {"da_node_price"},
     start_date : {None}, end_date : {None}, date_column : {"date"},
     company_name : {None, Some(Tashan)},
     unit_name : {None}, unit_dimension : {None, Some(Group13)},
     include_min_boundary : BOOLEAN, include_max_boundary : BOOLEAN]

InitReports ==
    /\ files = EmptySheets
    /\ app_out = None
    /\ script_out = None
    /\ edits = 0
    /\ boundary_result = None
    /\ \E sheet \in ReportSheets : df = load_data(sheet)
    /\ args = None
    /\ filtered = None
    /\ metric = None

\* analyze_all_metrics(a).
AnalyzeAll ==
    \E a \in ReportArgs :
        /\ metric = None
        /\ metric' = Some([name |-> "analyze_all_metrics", args |-> a,
                           use_unit_dimension |-> FALSE,
                           out |-> analyze_all_metrics(df, a)])
        /\ args' = Some(a)
        /\ df' = self_df_after(df, filter_by_price_range(df, a))
        /\ UNCHANGED <<files, app_out, script_out, edits, filtered, boundary_result>>

\* analyze_all_metrics_by_company(a): the method has no company_name.
AnalyzeByCompany ==
    \E a \in ReportArgs :
        /\ metric = None
        /\ a.company_name = None
        /\ metric' = Some([name |-> "analyze_all_metrics_by_company", args |-> a,
                           use_unit_dimension |-> FALSE,
                           out |-> analyze_all_metrics_by_company(df, a)])
        /\ args' = Some(a)
        /\ df' = self_df_after(df, filter_by_price_range(df, a))
        /\ UNCHANGED <<files, app_out, script_out, edits, filtered, boundary_result>>

\* analyze_all_metrics_by_unit(a, use_unit_dimension): the method has neither
\* company_name nor unit_dimension.
AnalyzeByUnit ==
    \E a \in ReportArgs : \E use \in BOOLEAN :
        /\ metric = None
        /\ a.company_name = None
        /\ a.unit_dimension = None
        /\ metric' = Some([name |-> "analyze_all_metrics_by_unit", args |-> a,
                           use_unit_dimension |-> use,
                           out |-> analyze_all_metrics_by_unit(df, a, use)])
        /\ args' = Some(a)
        /\ df' = self_df_after(df, filter_by_price_range(df, a))
        /\ UNCHANGED <<files, app_out, script_out, edits, filtered, boundary_result>>

NextReports == AnalyzeAll \/ AnalyzeByCompany \/ AnalyzeByUnit

SpecReports == InitReports /\ [][NextReports]_vars

----------------------------------------------------------------------------
(* Properties of the reports *)

\* The report call named n that returned rows.
Reported(n) ==
    /\ metric # None /\ metric[1].name = n
    /\ metric[1].out.raised = None
    /\ metric[1].out.warnings = {}

\* The rows of the report.
ReportOf == metric[1].out.rows[1]

\* The report was made by groups.
Grouped == metric[1].use_unit_dimension /\ "unit_dimension" \in Range(df.columns)

\* The pairs of company and group, or unit name, of the loaded rows.
PairsPresent ==
    {<<df.rows[i].company,
       IF Grouped THEN df.rows[i].unit_dimension ELSE df.rows[i].unit>> :
        i \in 1..Len(df.rows)}

\* The pair a row of the unit report stands for.
PairOf(row) == <<row.company, IF Grouped THEN row.unit_dimension ELSE row.unit>>

\* The orders in which the names of the set S can be listed once each.
Listings(S) ==
    {s \in [1..Cardinality(S) -> S] : \A i, j \in 1..Cardinality(S) : s[i] = s[j] => i = j}

\* The arguments a with the company and the group or unit of a pair.
Restricted(a, pair) ==
    [a EXCEPT !.company_name = Some(pair[1]),
              !.unit_dimension = IF Grouped THEN Some(pair[2]) ELSE None,
              !.unit_name = IF Grouped THEN None ELSE Some(pair[2])]

\* C22: the unit report has exactly one row for every pair of company and
\* unit group present in the table when grouping is on, else for every pair
\* of company and unit name; the ten metrics of a row are those of the filter
\* restricted to its company and its group or unit, and a grouped row lists
\* exactly the distinct unit names of its company in its group.
C22_OneRowPerPair ==
    Reported("analyze_all_metrics_by_unit") =>
        /\ {PairOf(ReportOf[i]) : i \in 1..Len(ReportOf)} = PairsPresent
        /\ \A i, j \in 1..Len(ReportOf) :
               PairOf(ReportOf[i]) = PairOf(ReportOf[j]) => i = j
        /\ \A i \in 1..Len(ReportOf) :
               /\ Some(ReportOf[i].values)
                      = analyze_all_metrics(df, Restricted(metric[1].args, PairOf(ReportOf[i]))).values
               /\ Grouped =>
                      \E s \in Listings({r.unit : r \in {x \in Range(df.rows) :
                                            /\ x.company = ReportOf[i].company
                                            /\ x.unit_dimension = ReportOf[i].unit_dimension}}) :
                          ReportOf[i].unit_names = join(s)

\* The places of the rows of the loaded table that pass the filter of the
\* arguments a on 日前出清节点价格, company, unit and unit group; a column
\* that is not there filters nothing.
Passing(a) ==
    LET cols == Range(df.columns)
    IN  {i \in 1..Len(df.rows) :
            /\ PassesBounds(df.rows[i].da_node_price, a)
            /\ (a.company_name # None /\ "company" \in cols) =>
                   (df.rows[i].company # <<>> /\ df.rows[i].company = a.company_name[1])
            /\ (a.unit_name # None /\ "unit" \in cols) =>
                   (df.rows[i].unit # <<>> /\ df.rows[i].unit = a.unit_name[1])
            /\ (a.unit_dimension # None /\ "unit_dimension" \in cols) =>
                   df.rows[i].unit_dimension = a.unit_dimension[1]}

\* C23: the company report has exactly one row for every distinct value of
\* 公司名称 in the table, a missing one and one none of whose rows pass the
\* filter included; the ten metrics of a row are those analyze_all_metrics
\* returns for the same arguments with company_name set to the row's company,
\* and its forecast hours are a quarter of the company's rows that pass.
C23_OneRowPerCompany ==
    Reported("analyze_all_metrics_by_company") =>
        /\ {ReportOf[i].company : i \in 1..Len(ReportOf)}
               = {df.rows[i].company : i \in 1..Len(df.rows)}
        /\ \A i, j \in 1..Len(ReportOf) :
               ReportOf[i].company = ReportOf[j].company => i = j
        /\ \A i \in 1..Len(ReportOf) :
               LET a == [metric[1].args EXCEPT !.company_name = Some(ReportOf[i].company)]
               IN  /\ Some(ReportOf[i].values) = analyze_all_metrics(df, a).values
                   /\ ReportOf[i].values[1] = Frac(Cardinality(Passing(a)), 4)

\* A company report of two companies under a group filter: one has a quarter
\* hour that passes, the other has a row and none that passes.
C23_Witness ==
    /\ Reported("analyze_all_metrics_by_company")
    /\ metric[1].args.unit_dimension # None
    /\ \E i, j \in 1..Len(ReportOf) :
           /\ ReportOf[i].values[1] = <<1, 4>>
           /\ ReportOf[j].values[1] = <<0, 1>>
           /\ ReportOf[j].company # <<>>

\* The call of analyze_all_metrics that returned its ten values.
Analyzed ==
    /\ metric # None /\ metric[1].name = "analyze_all_metrics"
    /\ metric[1].out.raised = None

\* Whether the hours g are at most the hours h.
HoursLeq(g, h) == g[1] * h[2] <= h[1] * g[2]

\* Whether the hours h are a whole number of quarter hours, none at least.
QuarterHours(h) == h[1] >= 0 /\ h[2] \in {1, 2, 4}

\* C29: whatever the table and the arguments, the realtime hours (metric 2)
\* of analyze_all_metrics are at most its forecast hours (metric 1), and both
\* are non-negative multiples of 0.25.
C29_RealtimeWithinForecast ==
    Analyzed =>
        LET v == metric[1].out.values[1]
        IN  /\ HoursLeq(v[2], v[1])
            /\ QuarterHours(v[1])
            /\ QuarterHours(v[2])
            /\ v[1] = Frac(Cardinality(Passing(metric[1].args)), 4)

\* analyze_all_metrics with an upper bound on a table of two rows that pass
\* it day-ahead, one of which is beyond it intraday: 0.5 and 0.25 hours.
C29_Witness ==
    /\ Analyzed
    /\ metric[1].args.max_price # None
    /\ metric[1].out.values[1][1] = <<1, 2>>
    /\ metric[1].out.values[1][2] = <<1, 4>>

\* Every row of the loaded table has a company and a unit name.
NamedRows ==
    /\ {"company", "unit"} \subseteq Range(df.columns)
    /\ \A r \in Range(df.rows) : r.company # <<>> /\ r.unit # <<>>

\* The forecast hours of the rows of the report that pick(row) holds for,
\* added up, in quarter hours.
RECURSIVE QuartersOf(_)
QuartersOf(rows) ==
    IF rows = <<>> THEN 0
    ELSE Quarters(Head(rows).values[1]) + QuartersOf(Tail(rows))

\* The rows of the report of company c.
RowsOfCompany(c) == SelectSeq(ReportOf, LAMBDA row : row.company = c)

\* The rows of the unit report that the loaded row r belongs to.
GroupsOf(r) ==
    {k \in 1..Len(ReportOf) :
        /\ ReportOf[k].company = r.company
        /\ IF Grouped THEN ReportOf[k].unit_dimension = r.unit_dimension
           ELSE ReportOf[k].unit = r.unit}

\* C30: on a table whose rows all have a company and a unit name, the
\* forecast hours of the rows of the company report add up to the forecast
\* hours of analyze_all_metrics without a company; the forecast hours of a
\* company's rows of the unit report add up to that company's forecast hours;
\* every row that passes the filter belongs to exactly one row of the report.
C30_ReportsPartition ==
    NamedRows =>
        /\ Reported("analyze_all_metrics_by_company") =>
               /\ QuartersOf(ReportOf) = Cardinality(Passing(metric[1].args))
               /\ Some(Frac(QuartersOf(ReportOf), 4))
                      = Some(analyze_all_metrics(df, metric[1].args).values[1][1])
               /\ \A i \in Passing(metric[1].args) :
                      Cardinality({k \in 1..Len(ReportOf) :
                                      ReportOf[k].company = df.rows[i].company}) = 1
        /\ Reported("analyze_all_metrics_by_unit") =>
               /\ \A c \in {r.company : r \in Range(df.rows)} :
                      LET a == [metric[1].args EXCEPT !.company_name = Some(c)]
                      IN  /\ QuartersOf(RowsOfCompany(c)) = Cardinality(Passing(a))
                          /\ Frac(QuartersOf(RowsOfCompany(c)), 4)
                                 = analyze_all_metrics(df, a).values[1][1]
               /\ \A i \in Passing(metric[1].args) :
                      Cardinality(GroupsOf(df.rows[i])) = 1

\* A unit report by groups on two rows of one company, of units 1 and 2, that
\* both pass: two rows of 0.25 hours for a company of 0.5 hours.
C30_Witness ==
    /\ NamedRows
    /\ Reported("analyze_all_metrics_by_unit")
    /\ Grouped
    /\ Len(ReportOf) = 2
    /\ ReportOf[1].company = ReportOf[2].company
    /\ ReportOf[1].values[1] = <<1, 4>>
    /\ ReportOf[2].values[1] = <<1, 4>>

----------------------------------------------------------------------------
(* The reconciliation on clearing summaries of many texts *)

\* How many pieces the text of the clearing summary is put together from.
MaxPieces == 2

\* Pieces of text: 运行机组容量4MW, 运行机组容量42.5 MW, 运行机组容量7.MW, and
\* pieces that are no match: another suffix, no number, no label, two
\* points, other words.
CapPieces ==
    { <<CapLabel, "4", "M", "W">>,
      <<CapLabel, "4", "2", ".", "5", " ", "M", "W">>,
      <<CapLabel, "7", ".", "M", "W">>,
      <<CapLabel, "9", "k", "W">>,
      <<CapLabel, "M", "W">>,
      <<"8", "M", "W">>,
      <<CapLabel, "1", ".", "2", ".", "3", "M", "W">>,
      <<"x">> }

\* The texts of up to MaxPieces pieces; the one of no piece is the empty cell.
CapTexts == { Flatten(ps) : ps \in UNION { [1..n -> CapPieces] : n \in 0..MaxPieces } }

\* Every sheet with one interval, the clearing summary with any of the texts.
InitClearing ==
    /\ \E text \in CapTexts :
           files = [OneRowSheets EXCEPT
                       !["clearing"] = <<UnitsRow("clearing"), ClearingRow(text)>>]
    /\ app_out = None
    /\ script_out = None
    /\ edits = 0
    /\ boundary_result = None
    /\ NoFilterCall

NextClearing == RunApp \/ RunScript

SpecClearing == InitClearing /\ [][NextClearing]_vars

\* The pattern matches at place i of text with the number ending at place e:
\* the label, digits, at most one point with digits behind it, whitespace, MW.
PatternAt(text, i, e) ==
    /\ text[i] = CapLabel
    /\ \E a \in (i + 1)..e :
           /\ \A k \in (i + 1)..a : IsDigit(text[k])
           /\ a < e => (text[a + 1] = "." /\ \A k \in (a + 2)..e : IsDigit(text[k]))
    /\ \E s \in e..(Len(text) - 2) :
           /\ \A k \in (e + 1)..s : text[k] = " "
           /\ text[s + 1] = "M" /\ text[s + 2] = "W"

\* The occurrences of the pattern in text: <<place, end of the number>>.
Occurrences(text) ==
    {m \in (1..Len(text)) \X (1..Len(text)) : PatternAt(text, m[1], m[2])}

\* The capacity the forecast rows of a run carry.
CapacityOf(t) == {r.online_capacity : r \in Range(EpochRows(t, DayAhead))}

\* C24: the capacity a run takes from the cell of the clearing summary is the
\* number of the first occurrence in it of the pattern (label, number, MW),
\* and is missing when the cell is empty or holds no occurrence; later
\* occurrences change nothing.
C24_FirstOccurrence ==
    \A t \in Produced :
        LET text == ClearingCell(files["clearing"])
            occ  == Occurrences(text)
        IN  IF occ = {} THEN CapacityOf(t) = {NaN}
            ELSE \E m \in occ :
                    /\ \A n \in occ : m[1] <= n[1]
                    /\ CapacityOf(t) = {float_of(SubSeq(text, m[1] + 1, m[2]))}

\* A run on a summary with two occurrences, 运行机组容量4MW before
\* 运行机组容量42.5 MW: the capacity is 4 MW.
C24_Witness ==
    \E t \in Produced :
        /\ Cardinality(Occurrences(ClearingCell(files["clearing"]))) = 2
        /\ CapacityOf(t) = {400}
        /\ \E m \in Occurrences(ClearingCell(files["clearing"])) :
               float_of(SubSeq(ClearingCell(files["clearing"]), m[1] + 1, m[2])) = 4250

----------------------------------------------------------------------------
(* Properties of the two reconciliations and of the upload page *)

\* All nine sources are there.
AllNine == DOMAIN files = FileNames

\* C25: on a file set with all nine sources that raises nothing, the table
\* the upload page's preprocess_boundary_files returns, with no error, has
\* the rows, the columns and the order of the table the script's
\* preprocess_data returns for the same sources, whichever of the two ran.
C25_ImplementationsAgree ==
    AllNine =>
        LET script == preprocess_data(files)
            page == preprocess_boundary_files(files)
        IN  /\ (app_out # None /\ script.raised = None) =>
                   /\ app_out[1].error = None
                   /\ app_out[1].result_df = script.result_df
            /\ (script_out # None /\ script_out[1].raised = None) =>
                   /\ page.error = None
                   /\ page.result_df = script_out[1].result_df

\* A run of the upload page that returned a table of both epochs whose
\* forecast rows the sort has put in another order than the merges left them.
C25_Witness ==
    /\ AllNine
    /\ app_out # None /\ app_out[1].error = None
    /\ LET t == app_out[1].result_df[1]
       IN  /\ Len(EpochRows(t, RealTime)) >= 1
           /\ Map(LAMBDA r : KeyOf(r), EpochRows(t, DayAhead))
                  # Map(LAMBDA r : KeyOf(r), day_ahead_data(files).rows)

\* C26: a call of preprocess_boundary_files returns a pair of which exactly
\* one component is not null: a table and no error, or no table and an error
\* message, which it is whenever a required file is absent; never a table
\* with an error, never neither.
C26_ExactlyOneComponent ==
    app_out # None =>
        /\ (app_out[1].result_df # None) # (app_out[1].error # None)
        /\ app_out[1].result_df # None => app_out[1].result_df[1].columns = columns
        /\ app_out[1].error # None =>
               app_out[1].error[1][1] \in {"missing_file", "processing_error"}
        /\ ~(FileNames \subseteq DOMAIN files) => app_out[1].error # None

\* A call on nine sources one of which holds a date that does not parse: no
\* table, and the message of the exception.
C26_Witness ==
    /\ app_out # None
    /\ FileNames \subseteq DOMAIN files
    /\ app_out[1].result_df = None
    /\ app_out[1].error # None
    /\ app_out[1].error[1][1] = "processing_error"

\* The place of file f in the reading order.
PlaceOf(f) == CHOOSE i \in 1..Len(FileOrder) : FileOrder[i] = f

\* The required files that are absent.
Missing == FileNames \ DOMAIN files

\* C27: the sources are tested in the one order load forecast, renewable
\* forecast, disclosure, day-ahead tie-line, clearing summary, hydro, actual
\* telemetry, realtime tie-line, clearing price: when several required files
\* are absent the error names the first absent one in that order, and none
\* behind it is read.
C27_FirstMissingInOrder ==
    (app_out # None /\ Cardinality(Missing) >= 2) =>
        \E f \in Missing :
            /\ \A g \in Missing : PlaceOf(f) <= PlaceOf(g)
            /\ app_out[1].error = Some(<<"missing_file", f>>)
            /\ \A g \in Range(app_out[1].read) : PlaceOf(g) < PlaceOf(f)

----------------------------------------------------------------------------
(* The upload page in the mode 预处理边界数据 *)

\* Lines 328-345: which of the nine required names are among the uploads.
required_files(fs) == [name \in FileNames |-> name \in DOMAIN fs]

\* Line 347: the required names that were not found, in the order of the list.
missing_files(fs) == SelectSeq(FileOrder, LAMBDA name : ~required_files(fs)[name])

\* A start button that is never disabled.
button_never_disabled(fs) == FALSE

\* Line 355: disabled=len(missing_files) > 0.
button_disabled(fs) == Len(missing_files(fs)) > 0

\* A name the page does not ask for.
OtherFile == "other"

\* The sheets a user uploads under name f: one well-formed interval; for the
\* load forecast also a sheet with a date that does not parse, for the actual
\* telemetry also a sheet with a second interval.
UploadSheets(f) ==
    IF f = OtherFile THEN {<<>>}
    ELSE {OneRowSheets[f]}
         \cup (IF f = "load_forecast"
               THEN {Append(OneRowSheets[f], SheetRow(f, Total, Junk, T0900, NumCell))}
               ELSE {})
         \cup (IF f = "actual"
               THEN {Append(OneRowSheets[f], SheetRow(f, Total, D1, T1000, NumCell))}
               ELSE {})

\* The page as it is opened: nothing uploaded, nothing stored.
InitUpload ==
    /\ files = [f \in {} |-> <<>>]
    /\ app_out = None
    /\ script_out = None
    /\ edits = 0
    /\ boundary_result = None
    /\ NoFilterCall

\* st.file_uploader: a file is added, or replaced by one of the same name;
\* the script runs again, the button not clicked.
UploadFile ==
    \E f \in FileNames \cup {OtherFile} : \E sheet \in UploadSheets(f) :
        /\ files' = [g \in DOMAIN files \cup {f} |-> IF g = f THEN sheet ELSE files[g]]
        /\ app_out' = None
        /\ UNCHANGED <<script_out, edits, df, args, filtered, metric, boundary_result>>

\* A file is taken out of the uploader.
RemoveUpload ==
    \E f \in DOMAIN files :
        /\ files' = [g \in DOMAIN files \ {f} |-> files[g]]
        /\ app_out' = None
        /\ UNCHANGED <<script_out, edits, df, args, filtered, metric, boundary_result>>

\* Lines 325-362: with uploads there, a click on the start button that is not
\* disabled runs preprocess_boundary_files on files_dict and stores the table
\* when there is one.
ClickStart ==
    /\ DOMAIN files # {}
    /\ ~button_disabled(files)
    /\ app_out' = Some(preprocess_boundary_files(files))
    /\ boundary_result' = IF preprocess_boundary_files(files).result_df # None
                          THEN preprocess_boundary_files(files).result_df
                          ELSE boundary_result
    /\ UNCHANGED <<files, script_out, edits, df, args, filtered, metric>>

NextUpload == UploadFile \/ RemoveUpload \/ ClickStart

SpecUpload == InitUpload /\ [][NextUpload]_vars

\* C28: on the upload page preprocess_boundary_files runs only on uploads
\* that hold every one of the nine required names, and boundary_result is
\* written only by a run that returned a table, which is what it then holds.
C28_StartNeedsAllNine ==
    [][/\ (app_out' # None /\ <<app_out, boundary_result>>' # <<app_out, boundary_result>>)
           => (FileNames \subseteq DOMAIN files /\ files' = files)
       /\ boundary_result' # boundary_result
           => /\ app_out' # None
              /\ app_out'[1].result_df # None
              /\ boundary_result' = app_out'[1].result_df]_vars

\* The table of an earlier run is still stored after a run on nine uploads
\* that returned an error.
C28_Witness ==
    /\ boundary_result # None
    /\ app_out # None
    /\ app_out[1].result_df = None
    /\ FileNames \subseteq DOMAIN files

====
